---- MODULE Spec2Model ----
(***************************************************************************)
(* The recording pipeline of aiNicx/recordi: the useRecorder hook          *)
(* (src/hooks/useRecorder.ts) driven by the App component                  *)
(* (src/unnamed/part_000), with the browser objects the hook talks to      *)
(* (capture tracks, MediaRecorder, AudioContext, requestAnimationFrame,    *)
(* setInterval) as the environment.                                        *)
(*                                                                         *)
(* startRecording is an async function: every await is a point where other *)
(* handlers may run, so it is split into one action per await, with pc     *)
(* naming the await it is suspended at.  Everything between two awaits is  *)
(* one atomic step, as on the JavaScript event loop.                       *)
(*                                                                         *)
(* The camera overlay is configured through LandingView                    *)
(* (src/unnamed/part_001) and RecordingOverlay (src/unnamed/part_002); the *)
(* compositor reads the configuration through configRef.  The review of a   *)
(* delivered recording (src/components/ReviewView.tsx) asks the remote      *)
(* model for a title and a description (src/unnamed/part_003).              *)
(***************************************************************************)
EXTENDS Integers, Sequences, FiniteSets, TLC

\* ------------------------------------------------------------------ bounds
MaxSessions == 2      \* start() attempts in one run
MaxSegments == 2      \* non-empty segments one encoder emits
MaxRecTicks == 3      \* sub-second ticks spent Recording in one session
MaxPausedTicks == 2   \* sub-second ticks spent Paused in one session
SubTicks == 2         \* clock ticks per second (the interval period is 1000 ms)
MaxGestures == 2      \* pointer-down events on the overlay box in one run

Sessions == 1..MaxSessions

Null == "null"

\* rejection reasons of getDisplayMedia / getUserMedia / play: err.message
RejectMessages == {"", "Permission denied"}

VARIABLES
    \* App component state (src/unnamed/part_000)
    appState, recordingData, errorMessage,
    \* useRecorder React state
    isRecording, isPaused, elapsedTime, error,
    \* useRecorder refs
    screenVideoRef, cameraVideoRef, mediaRecorderRef, animationFrameRef,
    streamRef, chunksRef, audioContextRef,
    \* the async startRecording call in flight
    pc, session,
    \* browser objects
    screenSrc, cameraSrc, recorderState, recorderMime, stopQueued,
    encBuffered, streamTracks, audioContextState, rafPending, canvasFrame,
    phase, supported,
    \* history
    emitted, recTicks, pausedTicks, resumed, failed, onStopCount,
    stopCause, stopCalls, stopLog, lastOp,
    \* the camera overlay: App state, the hook's ref, RecordingOverlay state
    cameraConfig, configRef, drawnConfig, containerBounds, isSettingsOpen,
    draggingRef, resizingRef, gestures,
    \* the page's environment: capture devices carrying audio, canvas API
    audioSources, roundRect,
    \* the inputs connected to the mixer's destination node
    mixerInputs,
    \* the camera frame a tick fits into the overlay box, and the fit
    fitInput, fitOutput,
    \* the canvas: the calls the last tick made on its 2D context, what they
    \* left in the frame buffer, the context's drawing state
    canvasCalls, canvasPixels, ctx,
    \* ReviewView (src/components/ReviewView.tsx) and the remote model's reply
    remote, language, meta, isLoadingAi

appVars == <<appState, recordingData, errorMessage>>
stateVars == <<isRecording, isPaused, elapsedTime, error>>
refVars == <<screenVideoRef, cameraVideoRef, mediaRecorderRef,
             animationFrameRef, streamRef, chunksRef, audioContextRef>>
timeVars == <<recTicks, pausedTicks, resumed>>
\* the state of RecordingOverlay, lost when it is unmounted
overlayVars == <<containerBounds, isSettingsOpen, draggingRef, resizingRef>>
configVars == <<cameraConfig, configRef, drawnConfig, gestures>>
\* what the page is given and never writes
envVars == <<supported, audioSources, roundRect, fitInput, remote, language>>
reviewVars == <<meta, isLoadingAi>>
\* the environment, and what few handlers write
canvasVars == <<canvasCalls, canvasPixels, ctx>>
sideVars == <<envVars, mixerInputs, fitOutput, canvasVars, reviewVars>>
\* everything but the overlay, its configuration and lastOp
sessionVars == <<appVars, stateVars, refVars, pc, session, screenSrc,
                 cameraSrc, recorderState, recorderMime, stopQueued,
                 encBuffered, streamTracks, audioContextState, rafPending,
                 canvasFrame, phase, sideVars, emitted, timeVars, failed,
                 onStopCount, stopCause, stopCalls, stopLog>>
\* the same but the state of ReviewView
sessionVarsButReview ==
    <<appVars, stateVars, refVars, pc, session, screenSrc, cameraSrc,
      recorderState, recorderMime, stopQueued, encBuffered, streamTracks,
      audioContextState, rafPending, canvasFrame, phase, envVars,
      mixerInputs, fitOutput,
      canvasVars, emitted, timeVars, failed, onStopCount,
      stopCause, stopCalls, stopLog>>
vars == <<appState, recordingData, errorMessage, isRecording, isPaused,
          elapsedTime, error, screenVideoRef, cameraVideoRef,
          mediaRecorderRef, animationFrameRef, streamRef, chunksRef,
          audioContextRef, pc, session, screenSrc, cameraSrc, recorderState,
          recorderMime, stopQueued, encBuffered, streamTracks,
          audioContextState, rafPending, canvasFrame, phase, emitted,
          recTicks, pausedTicks, resumed, failed, onStopCount, stopCause,
          stopCalls, stopLog, lastOp, sideVars, cameraConfig, configRef,
          drawnConfig, containerBounds, isSettingsOpen, draggingRef,
          resizingRef, gestures>>

\* ------------------------------------------------------------ pure helpers

\* JavaScript a || b on strings: the empty string is falsy
OrElse(a, b) == IF a = "" THEN b ELSE a

MimeTypes == <<"video/webm;codecs=vp9,opus", "video/webm;codecs=vp8,opus",
               "video/webm", "video/mp4">>

RECURSIVE FindFrom(_, _)
FindFrom(i, accepted) ==
    IF i > Len(MimeTypes) THEN ""
    ELSE IF MimeTypes[i] \in accepted THEN MimeTypes[i]
    ELSE FindFrom(i + 1, accepted)

\* getSupportedMimeType never trying the first entry of the list
getSupportedMimeType_skipsFirst(accepted) == FindFrom(2, accepted)

\* types.find(type => MediaRecorder.isTypeSupported(type)) || ''
getSupportedMimeType(accepted) == FindFrom(1, accepted)

\* what MediaRecorder.isTypeSupported accepts, for the browsers considered:
\* every format, mp4 only, none
BrowserFormats == {{MimeTypes[i] : i \in 1..Len(MimeTypes)},
                   {"video/mp4"}, {}}

\* what MediaRecorder.isTypeSupported may accept of the list: any part of it
AnyFormats == SUBSET {MimeTypes[i] : i \in 1..Len(MimeTypes)}

\* new Blob(parts, {type})
Blob(parts, type) == [parts |-> parts, type |-> type]

NoRecording == [blob |-> Blob(<<>>, ""), thumbnail |-> Null]

\* the interval of the timer effect is torn down and set up again whenever
\* one of its dependencies [isRecording, isPaused] changes
timerEffect(rec, paused) ==
    IF <<rec, paused>> = <<isRecording, isPaused>> THEN phase ELSE 0

\* -------------------------------------------------- overlay configuration
\* CameraConfig.size is a fraction of the frame's smaller side, kept here in
\* hundredths; position.x and position.y are fractions of the frame's width
\* and height, kept in thousandths.  The frames and pointer movements drawn
\* below make every quotient of the handlers exact in these units.
SizeUnit == 100
PosUnit == 1000

DEFAULT_CAMERA_CONFIG ==
    [size |-> 20, borderColor |-> "#6366f1", borderWidth |-> 8,
     shape |-> "circle", position |-> [x |-> 50, y |-> 700]]

\* useState({ width: 0, height: 0 })
Unmeasured == [width |-> 0, height |-> 0]

\* the sizes at which the canvas is laid out, in CSS pixels: landscape,
\* portrait, square
Frames == {[width |-> 200, height |-> 100], [width |-> 100, height |-> 200],
           [width |-> 100, height |-> 100]}

\* pointer movements since pointer-down, in CSS pixels
Deltas == {-200, -30, 30, 200}

\* positions of the size slider, the shape buttons
SliderSizes == {10, 35, 50}
Shapes == {"circle", "square", "rect"}

NoDrag == [set |-> FALSE, initialX |-> 0, initialY |-> 0]
NoResize == [set |-> FALSE, initialSize |-> 0]

MathMin(a, b) == IF a <= b THEN a ELSE b
MathMax(a, b) == IF a >= b THEN a ELSE b

\* JavaScript a || b on numbers: 0 is falsy
OrElseNum(a, b) == IF a = 0 THEN b ELSE a

\* onUpdateConfig({ ...cameraConfig, [key]: value })
updateConfig(config, key, value) == [config EXCEPT ![key] = value]

\* minDim * cameraConfig.size, in hundredths of a pixel
cameraPixelSize(config, bounds) ==
    MathMin(OrElseNum(bounds.width, 100), OrElseNum(bounds.height, 100))
        * config.size

\* the drag clamp keeping the corner at 1 or less
dragClamp_ignoresBox(initial, delta, boxPct) ==
    MathMax(0, MathMin(PosUnit, initial + delta))

\* Math.max(0, Math.min(1 - boxPct, initial + delta))
dragClamp(initial, delta, boxPct) ==
    MathMax(0, MathMin(PosUnit - boxPct, initial + delta))

\* the value of an <input type="range" min max step> whose thumb stands the
\* given number of steps above min: the browser keeps it at max or less
rangeInput(min, max, step, stop) == MathMin(max, min + step * stop)

\* parseFloat(e.target.value) of the size slider (min 0.1, max 0.5, step
\* 0.01), in hundredths
sizeSlider(stop) == rangeInput(10, 50, 1, stop)

\* parseInt(e.target.value) of the border width slider (min 0, max 20,
\* step 1) of LandingView and of the settings popover
borderSlider(stop) == rangeInput(0, 20, 1, stop)

\* where the thumbs are put
SizeStops == {0, 10, 40}
BorderStops == {0, 8, 20}

\* the resize clamp without its upper limit
resizeClamp_noMax(initialSize, delta) ==
    MathMax(10, initialSize + delta)

\* Math.max(0.1, Math.min(0.5, initialSize + delta))
resizeClamp(initialSize, delta) ==
    MathMax(10, MathMin(50, initialSize + delta))

\* the position handlePointerMove computes for a pointer that moved by
\* (dx, dy) pixels since pointer-down
dragPosition(config, bounds, drag, dx, dy) ==
    LET deltaX == (PosUnit * dx) \div bounds.width
        deltaY == (PosUnit * dy) \div bounds.height
        boxWidthPct == (PosUnit * cameraPixelSize(config, bounds))
                          \div (SizeUnit * bounds.width)
        boxHeightPct == (PosUnit * cameraPixelSize(config, bounds))
                           \div (SizeUnit * bounds.height)
    IN  [x |-> dragClamp(drag.initialX, deltaX, boxWidthPct),
         y |-> dragClamp(drag.initialY, deltaY, boxHeightPct)]

\* the size handlePointerMove computes for a pointer that moved down by dy
resizeSize(bounds, resize, dy) ==
    resizeClamp(resize.initialSize, (SizeUnit * dy) \div bounds.height)

\* handlePointerMove: both branches spread the cameraConfig of the last
\* render, and the second call of onUpdateConfig replaces the first
pointerMoveConfig(dx, dy) ==
    LET dragged ==
            IF draggingRef.set /\ containerBounds.width > 0
            THEN updateConfig(cameraConfig, "position",
                     dragPosition(cameraConfig, containerBounds,
                                  draggingRef, dx, dy))
            ELSE cameraConfig
    IN  IF resizingRef.set /\ containerBounds.height > 0
        THEN updateConfig(cameraConfig, "size",
                 resizeSize(containerBounds, resizingRef, dy))
        ELSE dragged

\* draw(): the square the camera is drawn into on a canvas of w x h pixels,
\* with camDrawSize = min(w, h) * size, x = position.x * w and
\* y = position.y * h, lies inside the canvas.  Both sides of each comparison
\* are multiplied by PosUnit.
BoxInside(config, w, h) ==
    LET camDrawSize == (PosUnit \div SizeUnit) * MathMin(w, h) * config.size
    IN  /\ 0 <= config.position.x * w
        /\ 0 <= config.position.y * h
        /\ config.position.x * w + camDrawSize <= PosUnit * w
        /\ config.position.y * h + camDrawSize <= PosUnit * h

\* draw() using the size of the configuration not yet committed to configRef
drawSnapshot_torn ==
    [size |-> cameraConfig.size, shape |-> configRef.shape,
     borderColor |-> configRef.borderColor,
     borderWidth |-> configRef.borderWidth,
     position |-> configRef.position]

\* const { size, shape, borderColor, borderWidth, position } =
\* configRef.current
drawSnapshot ==
    [size |-> configRef.size, shape |-> configRef.shape,
     borderColor |-> configRef.borderColor,
     borderWidth |-> configRef.borderWidth,
     position |-> configRef.position]

\* configRef.current = cameraConfig
configEffect == cameraConfig

\* --------------------------------------------------------- overlay geometry
\* getBorderRadius of LandingView and of RecordingOverlay: the CSS
\* border-radius of the preview box, in percent of its side
getBorderRadius(shape) ==
    CASE shape = "circle" -> 50
      [] shape = "square" -> 15
      [] shape = "rect" -> 35
      [] OTHER -> 15

\* the box the preview lays out in a container of the given bounds: side in
\* hundredths of a pixel, left and top in thousandths of the container's
\* width and height, radius in percent of the side
previewGeometry(config, bounds) ==
    [side |-> cameraPixelSize(config, bounds),
     left |-> config.position.x,
     top |-> config.position.y,
     radius |-> getBorderRadius(config.shape)]

\* how much larger than its layout the canvas is: the canvas has the size of
\* the captured screen and is laid out to fit the window
CanvasScales == {1, 2, 5}

\* the canvas laid out at the given bounds' size
canvasOf(bounds, scale) ==
    [width |-> scale * bounds.width, height |-> scale * bounds.height]

\* the compositor sizing the box by the canvas's width
compositorGeometry_usesWidth(config, canvas, hasRoundRect) ==
    LET camDrawSize == canvas.width * config.size
    IN  [camDrawSize |-> camDrawSize,
         x |-> config.position.x * canvas.width,
         y |-> config.position.y * canvas.height,
         radius |-> IF config.shape = "circle" THEN camDrawSize * 50
                    ELSE IF ~hasRoundRect THEN 0
                    ELSE IF config.shape = "square" THEN camDrawSize * 15
                    ELSE camDrawSize * 35]

\* the path draw() clips the camera to on a canvas: camDrawSize in hundredths
\* of a pixel, x and y in thousandths, the corner radius in ten-thousandths.
\* A circle is an arc of radius camDrawSize / 2; the other shapes are a
\* roundRect of radius 0.15 or 0.35 camDrawSize where the context has
\* roundRect, and a plain rect where it has not.
compositorGeometry(config, canvas, hasRoundRect) ==
    LET camDrawSize == MathMin(canvas.width, canvas.height) * config.size
    IN  [camDrawSize |-> camDrawSize,
         x |-> config.position.x * canvas.width,
         y |-> config.position.y * canvas.height,
         radius |-> IF config.shape = "circle" THEN camDrawSize * 50
                    ELSE IF ~hasRoundRect THEN 0
                    ELSE IF config.shape = "square" THEN camDrawSize * 15
                    ELSE camDrawSize * 35]

\* ---------------------------------------------------------------- cover fit
\* The intrinsic size of the camera video (videoWidth, videoHeight) is kept
\* in units of 80 pixels, the side of the overlay box (camDrawSize) in
\* pixels.  The four numbers of a fit are kept multiplied by 2 * vw * vh,
\* which makes every quotient below exact.
fitUnit(vw, vh) == 2 * vw * vh

\* a camera of 640 x 480 drawn into a box of 216 pixels
DefaultFit == [vw |-> 8, vh |-> 6, camDrawSize |-> 216]

\* the sizes a camera delivers: 240 to 1280 pixels a side
VideoSides == {3, 6, 8, 9, 16}

\* sides of the overlay box, in pixels
BoxSides == {100, 216, 350, 540}

NoFit == [drawW |-> 0, drawH |-> 0, offX |-> 0, offY |-> 0]

\* the fit scaling the source by the smaller of the two ratios
coverFit_contain(vw, vh, camDrawSize) ==
    LET unit == fitUnit(vw, vh)
        drawW == IF vw < vh THEN (camDrawSize * unit * vw) \div vh
                 ELSE camDrawSize * unit
        drawH == IF vw < vh THEN camDrawSize * unit
                 ELSE (camDrawSize * unit * vh) \div vw
    IN  [drawW |-> drawW, drawH |-> drawH,
         offX |-> IF vw < vh THEN -((drawW - camDrawSize * unit) \div 2)
                  ELSE 0,
         offY |-> IF vw < vh THEN 0
                  ELSE -((drawH - camDrawSize * unit) \div 2)]

\* step 4 of draw(), "center crop / cover": aspect = vw / vh; a source with
\* aspect > 1 is scaled to the box's height, any other to the box's width
coverFit(vw, vh, camDrawSize) ==
    LET unit == fitUnit(vw, vh)
        drawW == IF vw > vh THEN (camDrawSize * unit * vw) \div vh
                 ELSE camDrawSize * unit
        drawH == IF vw > vh THEN camDrawSize * unit
                 ELSE (camDrawSize * unit * vh) \div vw
    IN  [drawW |-> drawW, drawH |-> drawH,
         offX |-> IF vw > vh THEN -((drawW - camDrawSize * unit) \div 2)
                  ELSE 0,
         offY |-> IF vw > vh THEN 0
                  ELSE -((drawH - camDrawSize * unit) \div 2)]

\* the camera part of draw(), skipped while the camera video has no frame:
\* the fit of this tick, NoFit when it drew no camera
drawCamera(cameraReady) ==
    IF cameraReady
    THEN coverFit(fitInput.vw, fitInput.vh, fitInput.camDrawSize)
    ELSE NoFit

\* ------------------------------------------------------------ canvas calls
\* One run of draw() is the sequence of calls it makes on the 2D context.
\* The frame buffer is kept as two regions, the inside of the overlay's path
\* ("box") and the rest of the canvas ("outside"), each holding the layers
\* visible in it, bottom first.  The drawing state is what save() saves: the
\* clip and the shadow; the current path is not part of it.

\* the canvas RecordingOverlay mounts, and the context getContext('2d')
\* returns for it
BlankCanvas == [outside |-> <<"blank">>, box |-> <<"blank">>]

DefaultDrawingState == [clip |-> FALSE, shadow |-> FALSE, saved |-> <<>>]

\* what the canvas shows when a tick begins: the previous tick's pixels
PreviousFrame == [outside |-> <<"stale">>, box |-> <<"stale">>]

Layers(region) == {region[i] : i \in 1..Len(region)}

\* the calls that build the overlay's path
PathCalls == {"arc", "roundRect", "rect"}

\* drawImage(screen, 0, 0, canvas.width, canvas.height) and fillRect(0, 0,
\* canvas.width, canvas.height): opaque over the whole canvas, as far as the
\* clip lets them
paintCanvas(st, layer) ==
    [st EXCEPT !.pixels =
        [box |-> <<layer>>,
         outside |-> IF st.ctx.clip THEN st.pixels.outside ELSE <<layer>>]]

\* drawImage(camera, x + offX, y + offY, drawW, drawH): the cover fit fills
\* the box and overflows it; the overflow, and the image's shadow, show as
\* far as the clip lets them
paintCamera(st) ==
    [st EXCEPT !.pixels =
        [box |-> <<"camera">>,
         outside |-> IF st.ctx.clip THEN st.pixels.outside
                     ELSE st.pixels.outside
                          \o (IF st.ctx.shadow THEN <<"shadow">> ELSE <<>>)
                          \o <<"camera">>]]

\* stroke(): a line centred on the path, half of it inside the box; the outer
\* half, and the line's shadow, show as far as the clip lets them
paintStroke(st) ==
    IF st.path = "none" THEN st
    ELSE [st EXCEPT !.pixels =
             [box |-> Append(st.pixels.box, "border"),
              outside |-> IF st.ctx.clip THEN st.pixels.outside
                          ELSE st.pixels.outside
                               \o (IF st.ctx.shadow THEN <<"shadow">>
                                   ELSE <<>>)
                               \o <<"border">>]]

\* one call on the context: "setShadow" is the four assignments of lines
\* 164-167, "clearShadow" the assignment of line 173.  Only drawImage,
\* fillRect and stroke() paint; clip() and the shadow properties change the
\* drawing state and paint nothing.
canvasCall(st, call) ==
    CASE call = "drawScreen" -> paintCanvas(st, "screen")
      [] call = "fillBlack" -> paintCanvas(st, "black")
      [] call = "save" ->
            [st EXCEPT !.ctx.saved =
                Append(@, [clip |-> st.ctx.clip, shadow |-> st.ctx.shadow])]
      [] call = "restore" ->
            IF st.ctx.saved = <<>> THEN st
            ELSE [st EXCEPT !.ctx =
                     [clip |-> st.ctx.saved[Len(st.ctx.saved)].clip,
                      shadow |-> st.ctx.saved[Len(st.ctx.saved)].shadow,
                      saved |-> SubSeq(st.ctx.saved, 1,
                                       Len(st.ctx.saved) - 1)]]
      [] call = "beginPath" -> [st EXCEPT !.path = "none"]
      [] call \in PathCalls -> [st EXCEPT !.path = call]
      [] call = "closePath" -> st
      [] call = "setShadow" -> [st EXCEPT !.ctx.shadow = TRUE]
      [] call = "clearShadow" -> [st EXCEPT !.ctx.shadow = FALSE]
      [] call = "clip" -> [st EXCEPT !.ctx.clip = TRUE]
      [] call = "drawCamera" -> paintCamera(st)
      [] call = "stroke" -> paintStroke(st)
      [] OTHER -> st

RECURSIVE paint(_, _)
paint(st, calls) ==
    IF calls = <<>> THEN st
    ELSE paint(canvasCall(st, Head(calls)), Tail(calls))

\* the calls of the overlay part of draw(), lines 144-207
overlayCalls(config, hasRoundRect) ==
    <<"save", "beginPath",
      IF config.shape = "circle" THEN "arc"
      ELSE IF hasRoundRect THEN "roundRect" ELSE "rect",
      "closePath", "setShadow", "clip", "clearShadow", "drawCamera">>
    \o (IF config.borderWidth > 0 THEN <<"stroke">> ELSE <<>>)
    \o <<"restore">>

\* draw() leaving the canvas as it is while the screen video has no frame
drawOps_skipsBlack(screenReady, cameraReady, config, hasRoundRect) ==
    (IF screenReady THEN <<"drawScreen">> ELSE <<>>)
    \o (IF cameraReady THEN overlayCalls(config, hasRoundRect) ELSE <<>>)

\* draw() not checking the camera video's readyState
drawOps_overlayAlways(screenReady, cameraReady, config, hasRoundRect) ==
    <<IF screenReady THEN "drawScreen" ELSE "fillBlack">>
    \o overlayCalls(config, hasRoundRect)

\* the calls of one run of draw(), lines 126-208
drawOps(screenReady, cameraReady, config, hasRoundRect) ==
    <<IF screenReady THEN "drawScreen" ELSE "fillBlack">>
    \o (IF cameraReady THEN overlayCalls(config, hasRoundRect) ELSE <<>>)

\* draw() on the canvas
drawCanvas(screenReady, cameraReady) ==
    LET calls == drawOps(screenReady, cameraReady, drawSnapshot, roundRect)
        st == paint([pixels |-> PreviousFrame, ctx |-> ctx, path |-> "none"],
                    calls)
    IN  /\ canvasCalls' = calls
        /\ canvasPixels' = st.pixels
        /\ ctx' = st.ctx

\* ------------------------------------------------------------------ review
\* A string of the remote model's reply is a sequence of characters of three
\* kinds: "s" a white-space character, "q" a double quote, "w" any other.  A
\* line may begin with a label: "T" stands for a match of /^(Title|Titolo):/i,
\* "S" for one of /^(Summary|Sommario|Description|Descrizione):/i.  The fixed
\* strings of the code are sequences of one element.
NoMeta == [set |-> FALSE, title |-> <<>>, description |-> <<>>]

ReplyBodies == {<<>>, <<"w">>, <<"q">>, <<"s">>, <<"s", "w">>,
                <<"q", "w", "q">>, <<"w", "s">>}

ReplyLines == {label \o body : label \in {<<>>, <<"T">>, <<"S">>},
                               body \in ReplyBodies}

\* what ai.models.generateContent does: it throws, or resolves with a text
\* of no line, one line or two
Replies ==
    {[kind |-> "throws", lines |-> <<>>]}
        \cup {[kind |-> "text", lines |-> <<>>]}
        \cup {[kind |-> "text", lines |-> <<a>>] : a \in ReplyLines}
        \cup {[kind |-> "text", lines |-> <<a, b>>] :
                a \in ReplyLines, b \in ReplyLines}

\* a reply in the format the prompt asks for
DefaultReply == [kind |-> "text", lines |-> << <<"T", "w">>, <<"S", "w">> >>]

Languages == {"it", "en"}

RECURSIVE trimStart(_)
trimStart(str) ==
    IF str # <<>> /\ Head(str) = "s" THEN trimStart(Tail(str)) ELSE str

RECURSIVE trimEnd(_)
trimEnd(str) ==
    IF str # <<>> /\ str[Len(str)] = "s"
    THEN trimEnd(SubSeq(str, 1, Len(str) - 1))
    ELSE str

\* String.prototype.trim
trim(str) == trimEnd(trimStart(str))

\* .replace(/"/g, '')
removeQuotes(str) == SelectSeq(str, LAMBDA c : c # "q")

\* .replace(/^(Title|Titolo):\s*/i, '') on a line that matches, and the same
\* for the summary labels
stripLabel(line) == trimStart(Tail(line))

\* text.split('\n').filter(line => line.trim() !== '')
nonBlankLines(text) == SelectSeq(text, LAMBDA line : trim(line) # <<>>)

\* the body of lines.forEach
parseLine(acc, line) ==
    IF Head(line) = "T"
    THEN [acc EXCEPT !.title = trim(removeQuotes(stripLabel(line)))]
    ELSE IF Head(line) = "S"
    THEN [acc EXCEPT !.description = trim(stripLabel(line))]
    ELSE acc

RECURSIVE parseLines(_, _)
parseLines(acc, lines) ==
    IF lines = <<>> THEN acc
    ELSE parseLines(parseLine(acc, Head(lines)), Tail(lines))

\* lines.join(' ')
RECURSIVE join(_)
join(lines) ==
    IF lines = <<>> THEN <<>>
    ELSE IF Len(lines) = 1 THEN lines[1]
    ELSE lines[1] \o <<"s">> \o join(Tail(lines))

\* the try block of generateVideoMetadata on the text of a reply
parseReply(text) ==
    LET lines == nonBlankLines(text)
        parsed == parseLines([title |-> <<"Untitled Recording">>,
                              description |-> <<"No description generated.">>],
                             lines)
    IN  IF parsed.title = <<"Untitled Recording">> /\ Len(lines) > 0
        THEN [title |-> removeQuotes(lines[1]),
              description |-> IF Len(lines) > 1 THEN join(Tail(lines))
                              ELSE parsed.description]
        ELSE parsed

\* generateVideoMetadata: the parsed reply, or the fixed pair of the catch
\* block
generateVideoMetadata(reply, lang) ==
    IF reply.kind = "throws"
    THEN [title |-> IF lang = "it" THEN <<"Nuova Registrazione">>
                    ELSE <<"New Recording">>,
          description |->
              IF lang = "it"
              THEN <<"Impossibile generare la descrizione con AI.">>
              ELSE <<"Could not generate description using AI.">>]
    ELSE parseReply(reply.lines)

\* ------------------------------------------------------------ audio mixing
\* the capture sources that can carry audio: the microphone behind
\* getUserMedia, the system or tab audio behind getDisplayMedia
AudioKinds == {"microphone", "system"}

\* userStream.getAudioTracks().length.  getUserMedia({ video, audio }) resolves
\* with a track of each kind it was asked for, and rejects when a kind has no
\* device: a userStream that exists has its audio track.
userAudioTracks == IF "microphone" \in audioSources THEN 1 ELSE 0

\* screenStream.getAudioTracks().length.  getDisplayMedia({ audio: true })
\* resolves with or without an audio track, as the user and the platform
\* allow.
screenAudioTracks == IF "system" \in audioSources THEN 1 ELSE 0

\* the sources connected to destNode
mixerConnect(userTracks, screenTracks) ==
    (IF userTracks > 0 THEN {"micSource"} ELSE {})
        \cup (IF screenTracks > 0 THEN {"sysSource"} ELSE {})

\* err.message of a rejected getUserMedia: without a microphone the request
\* for audio cannot be met and the promise rejects with NotFoundError
getUserMediaRejections ==
    IF "microphone" \in audioSources THEN RejectMessages
    ELSE {"Requested device not found"}

\* ---------------------------------------------------------------- initial
\* App and useRecorder as mounted, before any start
Mounted ==
    /\ appState = "IDLE"
    /\ recordingData = NoRecording
    /\ errorMessage = Null
    /\ isRecording = FALSE
    /\ isPaused = FALSE
    /\ elapsedTime = 0
    /\ error = Null
    /\ screenVideoRef = FALSE
    /\ cameraVideoRef = FALSE
    /\ mediaRecorderRef = 0
    /\ animationFrameRef = FALSE
    /\ streamRef = 0
    /\ chunksRef = <<>>
    /\ audioContextRef = FALSE
    /\ pc = "idle"
    /\ session = 0
    /\ screenSrc = [s \in Sessions |-> "None"]
    /\ cameraSrc = [s \in Sessions |-> "None"]
    /\ recorderState = "inactive"
    /\ recorderMime = ""
    /\ stopQueued = FALSE
    /\ encBuffered = FALSE
    /\ streamTracks = "none"
    /\ audioContextState = "none"
    /\ rafPending = FALSE
    /\ canvasFrame = "blank"
    /\ phase = 0
    /\ emitted = <<>>
    /\ recTicks = 0
    /\ pausedTicks = 0
    /\ resumed = FALSE
    /\ failed = {}
    /\ onStopCount = [s \in Sessions |-> 0]
    /\ stopCause = "none"
    /\ stopCalls = [s \in Sessions |-> 0]
    /\ stopLog = <<>>
    /\ lastOp = "init"
    /\ cameraConfig = DEFAULT_CAMERA_CONFIG
    /\ configRef = DEFAULT_CAMERA_CONFIG
    /\ drawnConfig = DEFAULT_CAMERA_CONFIG
    /\ containerBounds = Unmeasured
    /\ isSettingsOpen = FALSE
    /\ draggingRef = NoDrag
    /\ resizingRef = NoResize
    /\ gestures = 0
    /\ mixerInputs = {}
    /\ fitOutput = NoFit
    /\ canvasCalls = <<>>
    /\ canvasPixels = BlankCanvas
    /\ ctx = DefaultDrawingState
    /\ meta = NoMeta
    /\ isLoadingAi = FALSE

\* the page is loaded in one of the browsers considered; what its
\* MediaRecorder supports does not change while the page lives
Init ==
    /\ supported \in BrowserFormats
    /\ audioSources = AudioKinds
    /\ roundRect = TRUE
    /\ fitInput = DefaultFit
    /\ remote = DefaultReply
    /\ language = "it"
    /\ Mounted

\* the page is loaded in a browser supporting any part of the list
FormatInit ==
    /\ supported \in AnyFormats
    /\ audioSources = AudioKinds
    /\ roundRect = TRUE
    /\ fitInput = DefaultFit
    /\ remote = DefaultReply
    /\ language = "it"
    /\ Mounted

\* the camera delivers frames of any of the sizes, the box has any of the
\* sides
CoverInit ==
    /\ supported \in BrowserFormats
    /\ audioSources = AudioKinds
    /\ roundRect = TRUE
    /\ fitInput \in [vw : VideoSides, vh : VideoSides, camDrawSize : BoxSides]
    /\ remote = DefaultReply
    /\ language = "it"
    /\ Mounted

\* the page is loaded in a browser whose canvas context has roundRect, or in
\* one whose context has not
PreviewInit ==
    /\ supported \in BrowserFormats
    /\ audioSources = AudioKinds
    /\ roundRect \in BOOLEAN
    /\ fitInput = DefaultFit
    /\ remote = DefaultReply
    /\ language = "it"
    /\ Mounted

\* the remote model answers the review's request in any of the ways, in
\* either language
MetadataInit ==
    /\ supported = {MimeTypes[i] : i \in 1..Len(MimeTypes)}
    /\ audioSources = AudioKinds
    /\ roundRect = TRUE
    /\ fitInput = DefaultFit
    /\ remote \in Replies
    /\ language \in Languages
    /\ Mounted

\* the page is loaded on a machine with any of the audio sources
AudioInit ==
    /\ supported \in BrowserFormats
    /\ audioSources \in SUBSET AudioKinds
    /\ roundRect = TRUE
    /\ fitInput = DefaultFit
    /\ remote = DefaultReply
    /\ language = "it"
    /\ Mounted

\* ----------------------------------------------------------- hook helpers

\* cleanup() without cancelAnimationFrame
cleanup_noCancel(stream) ==
    /\ screenVideoRef' = FALSE
    /\ cameraVideoRef' = FALSE
    /\ streamTracks' = IF stream # 0 THEN "ended" ELSE streamTracks
    /\ stopCalls' = IF stream # 0
                    THEN [stopCalls EXCEPT ![stream] = @ + 1]
                    ELSE stopCalls
    /\ audioContextState' = IF audioContextRef THEN "closed"
                            ELSE audioContextState
    /\ audioContextRef' = FALSE
    /\ rafPending' = rafPending
    /\ animationFrameRef' = FALSE

\* cleanup(): remove the hidden video elements, stop the tracks of the
\* combined (canvas + mixer) stream, close the audio graph, cancel the tick.
\* The tracks of screenStream and userStream are in none of these.
\* stream is streamRef.current at the time of the call: 0 for null, else the
\* session that built the stream.  streamRef is not reset, so the tracks of
\* the same stream are stopped again by every later call (stopCalls counts
\* the calls of stop() per stream).
cleanup(stream) ==
    /\ screenVideoRef' = FALSE
    /\ cameraVideoRef' = FALSE
    /\ streamTracks' = IF stream # 0 THEN "ended" ELSE streamTracks
    /\ stopCalls' = IF stream # 0
                    THEN [stopCalls EXCEPT ![stream] = @ + 1]
                    ELSE stopCalls
    /\ audioContextState' = IF audioContextRef THEN "closed"
                            ELSE audioContextState
    /\ audioContextRef' = FALSE
    /\ rafPending' = IF animationFrameRef THEN FALSE ELSE rafPending
    /\ animationFrameRef' = FALSE

\* stopRecording() without setIsPaused(false)
stopRecording_keepsPaused(cause) ==
    IF mediaRecorderRef # 0 /\ recorderState # "inactive"
    THEN /\ recorderState' = "inactive"
         /\ stopQueued' = TRUE
         /\ isRecording' = FALSE
         /\ phase' = timerEffect(FALSE, isPaused)
         /\ stopCause' = cause
         /\ UNCHANGED isPaused
    ELSE UNCHANGED <<recorderState, stopQueued, isRecording, isPaused,
                     phase, stopCause>>

\* stopRecording() testing only that a recorder exists, not its state
stopRecording_noStateCheck(cause) ==
    IF mediaRecorderRef # 0
    THEN /\ recorderState' = "inactive"
         /\ stopQueued' = TRUE
         /\ isRecording' = FALSE
         /\ isPaused' = FALSE
         /\ phase' = timerEffect(FALSE, FALSE)
         /\ stopCause' = cause
    ELSE UNCHANGED <<recorderState, stopQueued, isRecording, isPaused,
                     phase, stopCause>>

\* stopRecording(), called with the reason the caller had
stopRecording(cause) ==
    IF mediaRecorderRef # 0 /\ recorderState # "inactive"
    THEN /\ recorderState' = "inactive"
         /\ stopQueued' = TRUE
         /\ isRecording' = FALSE
         /\ isPaused' = FALSE
         /\ phase' = timerEffect(FALSE, FALSE)
         /\ stopCause' = cause
    ELSE UNCHANGED <<recorderState, stopQueued, isRecording, isPaused,
                     phase, stopCause>>

\* togglePause() without the early return on an inactive recorder and with
\* a plain else for the resume branch
togglePause_noEarlyReturn ==
    IF mediaRecorderRef # 0 /\ recorderState = "recording"
    THEN /\ recorderState' = "paused"
         /\ isPaused' = TRUE
         /\ phase' = timerEffect(isRecording, TRUE)
         /\ UNCHANGED resumed
    ELSE /\ recorderState' = "recording"
         /\ isPaused' = FALSE
         /\ phase' = timerEffect(isRecording, FALSE)
         /\ resumed' = TRUE

\* togglePause()
togglePause ==
    IF mediaRecorderRef = 0 \/ recorderState = "inactive"
    THEN UNCHANGED <<recorderState, isPaused, phase, resumed>>
    ELSE IF recorderState = "recording"
    THEN /\ recorderState' = "paused"
         /\ isPaused' = TRUE
         /\ phase' = timerEffect(isRecording, TRUE)
         /\ UNCHANGED resumed
    ELSE /\ recorderState' = "recording"
         /\ isPaused' = FALSE
         /\ phase' = timerEffect(isRecording, FALSE)
         /\ resumed' = TRUE

\* what the encoder hands to ondataavailable: the data gathered since the
\* last flush, an empty blob if there is none
encoderData ==
    IF encBuffered
    THEN [session |-> mediaRecorderRef, seq |-> Len(emitted) + 1, size |-> 1]
    ELSE [session |-> mediaRecorderRef, seq |-> 0, size |-> 0]

\* recorder.ondataavailable with the size test off by one
ondataavailable_offByOne(chunks, data) ==
    IF data.size > 1 THEN Append(chunks, data) ELSE chunks

\* recorder.ondataavailable
ondataavailable(chunks, data) ==
    IF data.size > 0 THEN Append(chunks, data) ELSE chunks

\* the releases cleanup() performs, in the order of its statements: each is
\* skipped when its ref is null
cleanupSteps(stream) ==
    (IF screenVideoRef THEN <<"screenVideo">> ELSE <<>>)
    \o (IF cameraVideoRef THEN <<"cameraVideo">> ELSE <<>>)
    \o (IF stream # 0 THEN <<"streamTracks">> ELSE <<>>)
    \o (IF audioContextRef THEN <<"audioContext">> ELSE <<>>)
    \o (IF animationFrameRef THEN <<"animationFrame">> ELSE <<>>)

\* what recorder.onstop does, in the order of its statements
onstopSteps(stream) ==
    cleanupSteps(stream) \o <<"blob", "thumbnail", "onStop">>

\* recorder.onstop building the Blob from the chunks as they were before
\* the last dataavailable
onstop_staleChunks(chunks) ==
    /\ cleanup(streamRef)
    /\ recordingData' = [blob |-> Blob(chunksRef, recorderMime),
                         thumbnail |-> canvasFrame]
    /\ appState' = "REVIEW"

\* recorder.onstop, run on the chunks as the last dataavailable left them
onstop(chunks) ==
    /\ cleanup(streamRef)
    /\ recordingData' = [blob |-> Blob(chunks, recorderMime),
                         thumbnail |-> canvasFrame]
    /\ appState' = "REVIEW"

\* an interval that is not torn down on pause
intervalTick_ignoresPause ==
    IF isRecording
    THEN IF phase + 1 = SubTicks
         THEN elapsedTime' = elapsedTime + 1 /\ phase' = 0
         ELSE phase' = phase + 1 /\ UNCHANGED elapsedTime
    ELSE UNCHANGED <<elapsedTime, phase>>

\* the callback of the one-second interval
intervalTick ==
    IF isRecording /\ ~isPaused
    THEN IF phase + 1 = SubTicks
         THEN elapsedTime' = elapsedTime + 1 /\ phase' = 0
         ELSE phase' = phase + 1 /\ UNCHANGED elapsedTime
    ELSE UNCHANGED <<elapsedTime, phase>>

\* the catch blocks without setError
catchStart_noSetError(message, stream) ==
    /\ cleanup(stream)
    /\ appState' = "IDLE"
    /\ errorMessage' = OrElse(message,
           "Failed to start recording. Please check permissions.")
    /\ pc' = "idle"
    /\ failed' = failed \cup {session}
    /\ UNCHANGED error

\* the catch block of handleStart without setAppState(AppState.IDLE)
catchStart_staysRecording(message, stream) ==
    /\ cleanup(stream)
    /\ error' = OrElse(message, "Failed to start recording")
    /\ appState' = appState
    /\ errorMessage' = OrElse(message,
           "Failed to start recording. Please check permissions.")
    /\ pc' = "idle"
    /\ failed' = failed \cup {session}

\* the catch block of startRecording followed by the catch block of
\* handleStart, which receives the rethrown error
catchStart(message, stream) ==
    /\ cleanup(stream)
    /\ error' = OrElse(message, "Failed to start recording")
    /\ appState' = "IDLE"
    /\ errorMessage' = OrElse(message,
           "Failed to start recording. Please check permissions.")
    /\ pc' = "idle"
    /\ failed' = failed \cup {session}

\* one run of draw() on the canvas: screen frame or black, then the overlay
\* if the camera has a frame
drawFrame(screenReady, cameraReady) ==
    IF screenReady
    THEN IF cameraReady THEN "screen+cam" ELSE "screen"
    ELSE IF cameraReady THEN "black+cam" ELSE "black"

\* ----------------------------------------------------------------- actions

\* handleStart with startRecording issuing getUserMedia together with
\* getDisplayMedia
HandleStart_requestsBoth ==
    /\ appState = "IDLE"
    /\ pc = "idle"
    /\ session < MaxSessions
    /\ errorMessage' = Null
    /\ appState' = "RECORDING"
    /\ error' = Null
    /\ elapsedTime' = 0
    /\ chunksRef' = <<>>
    /\ isPaused' = FALSE
    /\ phase' = timerEffect(isRecording, FALSE)
    /\ screenVideoRef' = TRUE
    /\ cameraVideoRef' = TRUE
    /\ session' = session + 1
    /\ screenSrc' = [screenSrc EXCEPT ![session + 1] = "Opening"]
    /\ cameraSrc' = [cameraSrc EXCEPT ![session + 1] = "Opening"]
    /\ pc' = "awaitScreen"
    /\ canvasFrame' = "blank"
    /\ fitOutput' = NoFit
    /\ canvasCalls' = <<>>
    /\ canvasPixels' = BlankCanvas
    /\ ctx' = DefaultDrawingState
    /\ containerBounds' = Unmeasured
    /\ isSettingsOpen' = FALSE
    /\ draggingRef' = NoDrag
    /\ resizingRef' = NoResize
    /\ lastOp' = "start"
    /\ UNCHANGED <<recordingData, isRecording, mediaRecorderRef,
                   animationFrameRef, streamRef, audioContextRef,
                   recorderState, recorderMime, stopQueued, encBuffered,
                   streamTracks, audioContextState, rafPending,
                   emitted, recTicks, pausedTicks, resumed, failed,
                   onStopCount, stopCause, stopCalls, envVars, mixerInputs,
                   reviewVars, stopLog,
                   configVars>>

\* handleStart with startRecording not emptying chunksRef
HandleStart_keepsChunks ==
    /\ appState = "IDLE"
    /\ pc = "idle"
    /\ session < MaxSessions
    /\ errorMessage' = Null
    /\ appState' = "RECORDING"
    /\ error' = Null
    /\ elapsedTime' = 0
    /\ isPaused' = FALSE
    /\ phase' = timerEffect(isRecording, FALSE)
    /\ screenVideoRef' = TRUE
    /\ cameraVideoRef' = TRUE
    /\ session' = session + 1
    /\ screenSrc' = [screenSrc EXCEPT ![session + 1] = "Opening"]
    /\ pc' = "awaitScreen"
    /\ canvasFrame' = "blank"
    /\ fitOutput' = NoFit
    /\ canvasCalls' = <<>>
    /\ canvasPixels' = BlankCanvas
    /\ ctx' = DefaultDrawingState
    /\ containerBounds' = Unmeasured
    /\ isSettingsOpen' = FALSE
    /\ draggingRef' = NoDrag
    /\ resizingRef' = NoResize
    /\ lastOp' = "start"
    /\ UNCHANGED <<recordingData, isRecording, mediaRecorderRef, chunksRef,
                   animationFrameRef, streamRef, audioContextRef, cameraSrc,
                   recorderState, recorderMime, stopQueued, encBuffered,
                   streamTracks, audioContextState, rafPending,
                   emitted, recTicks, pausedTicks, resumed, failed,
                   onStopCount, stopCause, stopCalls, envVars, mixerInputs,
                   reviewVars, stopLog,
                   configVars>>

\* handleStart, and startRecording up to await getDisplayMedia.  Rendering
\* the RECORDING view mounts RecordingOverlay with a fresh, blank canvas.
HandleStart ==
    /\ appState = "IDLE"
    /\ pc = "idle"
    /\ session < MaxSessions
    /\ errorMessage' = Null
    /\ appState' = "RECORDING"
    /\ error' = Null
    /\ elapsedTime' = 0
    /\ chunksRef' = <<>>
    /\ isPaused' = FALSE
    /\ phase' = timerEffect(isRecording, FALSE)
    /\ screenVideoRef' = TRUE
    /\ cameraVideoRef' = TRUE
    /\ session' = session + 1
    /\ screenSrc' = [screenSrc EXCEPT ![session + 1] = "Opening"]
    /\ pc' = "awaitScreen"
    /\ canvasFrame' = "blank"
    /\ fitOutput' = NoFit
    /\ canvasCalls' = <<>>
    /\ canvasPixels' = BlankCanvas
    /\ ctx' = DefaultDrawingState
    /\ containerBounds' = Unmeasured
    /\ isSettingsOpen' = FALSE
    /\ draggingRef' = NoDrag
    /\ resizingRef' = NoResize
    /\ lastOp' = "start"
    /\ UNCHANGED <<recordingData, isRecording, mediaRecorderRef,
                   animationFrameRef, streamRef, audioContextRef, cameraSrc,
                   recorderState, recorderMime, stopQueued, encBuffered,
                   streamTracks, audioContextState, rafPending,
                   emitted, recTicks, pausedTicks, resumed, failed,
                   onStopCount, stopCause, stopCalls, envVars, mixerInputs,
                   reviewVars, stopLog,
                   configVars>>

\* getDisplayMedia resolves: onended is attached, getUserMedia is requested
ScreenGranted ==
    /\ pc = "awaitScreen"
    /\ screenSrc' = [screenSrc EXCEPT ![session] = "Live"]
    /\ cameraSrc' = [cameraSrc EXCEPT ![session] = "Opening"]
    /\ pc' = "awaitCamera"
    /\ lastOp' = "startStep"
    /\ UNCHANGED <<appVars, stateVars, refVars, session, recorderState,
                   recorderMime, stopQueued, encBuffered, streamTracks,
                   audioContextState, rafPending, canvasFrame, phase,
                   emitted, timeVars, failed, onStopCount, stopCause,
                   stopCalls, sideVars, stopLog, overlayVars, configVars>>

\* getDisplayMedia rejects
ScreenDenied ==
    /\ pc = "awaitScreen"
    /\ \E m \in RejectMessages : catchStart(m, streamRef)
    /\ screenSrc' = [screenSrc EXCEPT ![session] = "Failed"]
    /\ lastOp' = "startFailed"
    /\ UNCHANGED <<recordingData, isRecording, isPaused, elapsedTime,
                   mediaRecorderRef, streamRef, chunksRef, session,
                   cameraSrc, recorderState, recorderMime, stopQueued,
                   encBuffered, canvasFrame, phase, emitted, timeVars,
                   onStopCount, stopCause, sideVars, stopLog,
                   overlayVars, configVars>>

\* getUserMedia resolves: srcObject is set on both elements, play() is called
CameraGranted ==
    /\ pc = "awaitCamera"
    /\ "microphone" \in audioSources
    /\ cameraSrc' = [cameraSrc EXCEPT ![session] = "Live"]
    /\ pc' = "awaitPlay"
    /\ lastOp' = "startStep"
    /\ UNCHANGED <<appVars, stateVars, refVars, session, screenSrc,
                   recorderState, recorderMime, stopQueued, encBuffered,
                   streamTracks, audioContextState, rafPending, canvasFrame,
                   phase, emitted, timeVars, failed, onStopCount, stopCause,
                   stopCalls, sideVars, stopLog, overlayVars, configVars>>

\* getUserMedia rejects
CameraDenied ==
    /\ pc = "awaitCamera"
    /\ \E m \in getUserMediaRejections : catchStart(m, streamRef)
    /\ cameraSrc' = [cameraSrc EXCEPT ![session] = "Failed"]
    /\ lastOp' = "startFailed"
    /\ UNCHANGED <<recordingData, isRecording, isPaused, elapsedTime,
                   mediaRecorderRef, streamRef, chunksRef, session,
                   screenSrc, recorderState, recorderMime, stopQueued,
                   encBuffered, canvasFrame, phase, emitted, timeVars,
                   onStopCount, stopCause, sideVars, stopLog,
                   overlayVars, configVars>>

\* one of the play() promises rejects
PlayRejected ==
    /\ pc = "awaitPlay"
    /\ \E m \in RejectMessages : catchStart(m, streamRef)
    /\ lastOp' = "startFailed"
    /\ UNCHANGED <<recordingData, isRecording, isPaused, elapsedTime,
                   mediaRecorderRef, streamRef, chunksRef, session,
                   screenSrc, cameraSrc, recorderState, recorderMime,
                   stopQueued, encBuffered, canvasFrame, phase, emitted,
                   timeVars, onStopCount, stopCause, sideVars, stopLog,
                   overlayVars, configVars>>

\* both play() promises resolve: the canvas is looked up and sized, draw()
\* runs once and schedules itself, the AudioContext is created (and resumed).
\* The canvas is rendered by RecordingOverlay, mounted while appState is
\* RECORDING.
PlayResolved ==
    /\ pc = "awaitPlay"
    /\ IF appState # "RECORDING"
       THEN /\ catchStart("Canvas not initialized", streamRef)
            /\ lastOp' = "startFailed"
            /\ UNCHANGED <<canvasFrame, drawnConfig, fitOutput, canvasVars>>
       ELSE /\ \E screenReady \in BOOLEAN, cameraReady \in BOOLEAN :
                 /\ canvasFrame' = drawFrame(screenReady, cameraReady)
                 /\ fitOutput' = drawCamera(cameraReady)
                 /\ drawCanvas(screenReady, cameraReady)
            /\ drawnConfig' = drawSnapshot
            /\ animationFrameRef' = TRUE
            /\ rafPending' = TRUE
            /\ audioContextRef' = TRUE
            /\ audioContextState' = "running"
            /\ pc' = "awaitAudio"
            /\ lastOp' = "startStep"
            /\ UNCHANGED <<appState, errorMessage, error, screenVideoRef,
                           cameraVideoRef, streamTracks, failed,
                           stopCalls>>
    /\ UNCHANGED <<recordingData, isRecording, isPaused, elapsedTime,
                   mediaRecorderRef, streamRef, chunksRef, session,
                   screenSrc, cameraSrc, recorderState, recorderMime,
                   stopQueued, encBuffered, phase, emitted, timeVars,
                   onStopCount, stopCause, envVars, mixerInputs,
                   reviewVars,
                   stopLog, overlayVars, cameraConfig, configRef, gestures>>

\* the mixer and the combined stream are built, a format is found, the
\* MediaRecorder is created and started with a one-second timeslice
EncoderOpened ==
    /\ pc = "awaitAudio"
    /\ getSupportedMimeType(supported) # ""
    /\ recorderMime' = getSupportedMimeType(supported)
    /\ mixerInputs' = mixerConnect(userAudioTracks, screenAudioTracks)
    /\ streamRef' = session
    /\ streamTracks' = "live"
    /\ mediaRecorderRef' = session
    /\ recorderState' = "recording"
    /\ encBuffered' = FALSE
    /\ isRecording' = TRUE
    /\ phase' = timerEffect(TRUE, isPaused)
    /\ pc' = "idle"
    /\ emitted' = <<>>
    /\ recTicks' = 0
    /\ pausedTicks' = 0
    /\ resumed' = FALSE
    /\ stopCause' = "none"
    /\ lastOp' = "startStep"
    /\ UNCHANGED <<appVars, isPaused, elapsedTime, error, screenVideoRef,
                   cameraVideoRef, animationFrameRef, chunksRef,
                   audioContextRef, session, screenSrc, cameraSrc,
                   stopQueued, audioContextState, rafPending, canvasFrame,
                   failed, onStopCount, stopCalls, envVars, fitOutput,
                   canvasVars,
                   reviewVars, stopLog,
                   overlayVars, configVars>>

\* no entry of the preference list is supported: the combined stream is
\* already in streamRef when the error is thrown
NoSupportedFormat ==
    /\ pc = "awaitAudio"
    /\ getSupportedMimeType(supported) = ""
    /\ mixerInputs' = mixerConnect(userAudioTracks, screenAudioTracks)
    /\ streamRef' = session
    /\ catchStart("No supported video MIME type found", session)
    /\ lastOp' = "startFailed"
    /\ UNCHANGED <<recordingData, isRecording, isPaused, elapsedTime,
                   mediaRecorderRef, chunksRef, session, screenSrc,
                   cameraSrc, recorderState, recorderMime, stopQueued,
                   encBuffered, canvasFrame, phase, emitted, timeVars,
                   onStopCount, stopCause, envVars,
                   fitOutput, canvasVars, reviewVars, stopLog,
                   overlayVars, configVars>>

\* the caller invokes togglePause (the pause / resume control).  The hook
\* returns togglePause and stopRecording to its caller, which may invoke
\* them in any state; RecordingOverlay shows their buttons once isRecording.
TogglePause ==
    /\ togglePause
    /\ lastOp' = "togglePause"
    /\ UNCHANGED <<appVars, isRecording, elapsedTime, error, refVars, pc,
                   session, screenSrc, cameraSrc, recorderMime, stopQueued,
                   encBuffered, streamTracks, audioContextState, rafPending,
                   canvasFrame, emitted, recTicks, pausedTicks, failed,
                   onStopCount, stopCause, stopCalls, sideVars, stopLog,
                   overlayVars, configVars>>

\* the caller invokes stopRecording (handleStop)
StopRecording ==
    /\ stopRecording("user")
    /\ lastOp' = "stopRecording"
    /\ UNCHANGED <<appVars, elapsedTime, error, refVars, pc, session,
                   screenSrc, cameraSrc, recorderMime, encBuffered,
                   streamTracks, audioContextState, rafPending, canvasFrame,
                   emitted, timeVars, failed, onStopCount, stopCalls,
                   sideVars, stopLog, overlayVars, configVars>>

\* the user ends screen sharing outside the app: the video track of a
\* screen stream fires ended, its onended handler calls stopRecording
ScreenEnded ==
    /\ \E s \in Sessions :
          /\ screenSrc[s] = "Live"
          /\ screenSrc' = [screenSrc EXCEPT ![s] = "Ended"]
    /\ stopRecording("screenEnded")
    /\ lastOp' = "screenEnded"
    /\ UNCHANGED <<appVars, elapsedTime, error, refVars, pc, session,
                   cameraSrc, recorderMime, encBuffered, streamTracks,
                   audioContextState, rafPending, canvasFrame, emitted,
                   timeVars, failed, onStopCount, stopCalls, sideVars,
                   stopLog, overlayVars, configVars>>

\* the clock advances by one tick (1/SubTicks of a second)
Tick ==
    /\ \/ /\ recorderState = "recording"
          /\ recTicks < MaxRecTicks
          /\ recTicks' = recTicks + 1
          /\ UNCHANGED pausedTicks
       \/ /\ recorderState = "paused"
          /\ pausedTicks < MaxPausedTicks
          /\ pausedTicks' = pausedTicks + 1
          /\ UNCHANGED recTicks
    /\ intervalTick
    /\ lastOp' = "env"
    /\ UNCHANGED <<appVars, isRecording, isPaused, error, refVars, pc,
                   session, screenSrc, cameraSrc, recorderState,
                   recorderMime, stopQueued, encBuffered, streamTracks,
                   audioContextState, rafPending, canvasFrame, emitted,
                   resumed, failed, onStopCount, stopCause, stopCalls,
                   sideVars, stopLog, overlayVars, configVars>>

\* the encoder consumes frames of the combined stream
Encode ==
    /\ recorderState = "recording"
    /\ ~encBuffered
    /\ Len(emitted) < MaxSegments
    /\ encBuffered' = TRUE
    /\ lastOp' = "env"
    /\ UNCHANGED <<appVars, stateVars, refVars, pc, session, screenSrc,
                   cameraSrc, recorderState, recorderMime, stopQueued,
                   streamTracks, audioContextState, rafPending, canvasFrame,
                   phase, emitted, timeVars, failed, onStopCount, stopCause,
                   stopCalls, sideVars, stopLog, overlayVars, configVars>>

\* the timeslice of recorder.start(1000) elapses: dataavailable fires
TimesliceFlush ==
    /\ recorderState = "recording"
    /\ chunksRef' = ondataavailable(chunksRef, encoderData)
    /\ emitted' = IF encBuffered THEN Append(emitted, encoderData)
                  ELSE emitted
    /\ encBuffered' = FALSE
    /\ lastOp' = "env"
    /\ UNCHANGED <<appVars, stateVars, screenVideoRef, cameraVideoRef,
                   mediaRecorderRef, animationFrameRef, streamRef,
                   audioContextRef, pc, session, screenSrc, cameraSrc,
                   recorderState, recorderMime, stopQueued, streamTracks,
                   audioContextState, rafPending, canvasFrame, phase,
                   timeVars, failed, onStopCount, stopCause, stopCalls,
                   sideVars, stopLog, overlayVars, configVars>>

\* the task queued by recorder.stop(): a last dataavailable with the data
\* gathered so far, then the stop event
RecorderStopTask ==
    /\ stopQueued
    /\ chunksRef' = ondataavailable(chunksRef, encoderData)
    /\ emitted' = IF encBuffered THEN Append(emitted, encoderData)
                  ELSE emitted
    /\ encBuffered' = FALSE
    /\ onstop(ondataavailable(chunksRef, encoderData))
    /\ stopQueued' = FALSE
    /\ onStopCount' = [onStopCount EXCEPT ![mediaRecorderRef] = @ + 1]
    /\ stopLog' = <<"dataavailable">> \o onstopSteps(streamRef)
    /\ lastOp' = "onstop"
    /\ UNCHANGED <<errorMessage, stateVars, mediaRecorderRef, streamRef,
                   pc, session, screenSrc, cameraSrc, recorderState,
                   recorderMime, canvasFrame, phase, timeVars, failed,
                   stopCause, sideVars, overlayVars, configVars>>

\* draw() not scheduling itself again while the recorder is paused
DrawTick_stopsWhilePaused ==
    /\ rafPending
    /\ IF ~screenVideoRef \/ ~cameraVideoRef
       THEN /\ rafPending' = FALSE
            /\ UNCHANGED <<canvasFrame, animationFrameRef, drawnConfig,
                           fitOutput, canvasVars>>
       ELSE /\ \E screenReady \in BOOLEAN, cameraReady \in BOOLEAN :
                 /\ canvasFrame' = drawFrame(screenReady, cameraReady)
                 /\ fitOutput' = drawCamera(cameraReady)
                 /\ drawCanvas(screenReady, cameraReady)
            /\ drawnConfig' = drawSnapshot
            /\ animationFrameRef' = TRUE
            /\ rafPending' = (recorderState # "paused")
    /\ lastOp' = "draw"
    /\ UNCHANGED <<appVars, stateVars, screenVideoRef, cameraVideoRef,
                   mediaRecorderRef, streamRef, chunksRef, audioContextRef,
                   pc, session, screenSrc, cameraSrc, recorderState,
                   recorderMime, stopQueued, encBuffered, streamTracks,
                   audioContextState, phase, emitted, timeVars, failed,
                   onStopCount, stopCause, stopCalls, envVars,
                   mixerInputs, reviewVars, stopLog,
                   overlayVars, cameraConfig, configRef, gestures>>

\* the animation-frame callback: draw() runs and schedules itself again
DrawTick ==
    /\ rafPending
    /\ IF ~screenVideoRef \/ ~cameraVideoRef
       THEN /\ rafPending' = FALSE
            /\ UNCHANGED <<canvasFrame, animationFrameRef, drawnConfig,
                           fitOutput, canvasVars>>
       ELSE /\ \E screenReady \in BOOLEAN, cameraReady \in BOOLEAN :
                 /\ canvasFrame' = drawFrame(screenReady, cameraReady)
                 /\ fitOutput' = drawCamera(cameraReady)
                 /\ drawCanvas(screenReady, cameraReady)
            /\ drawnConfig' = drawSnapshot
            /\ animationFrameRef' = TRUE
            /\ rafPending' = TRUE
    /\ lastOp' = "draw"
    /\ UNCHANGED <<appVars, stateVars, screenVideoRef, cameraVideoRef,
                   mediaRecorderRef, streamRef, chunksRef, audioContextRef,
                   pc, session, screenSrc, cameraSrc, recorderState,
                   recorderMime, stopQueued, encBuffered, streamTracks,
                   audioContextState, phase, emitted, timeVars, failed,
                   onStopCount, stopCause, stopCalls, envVars,
                   mixerInputs, reviewVars, stopLog,
                   overlayVars, cameraConfig, configRef, gestures>>

\* handleReset, the "new recording" control of the review view
HandleReset ==
    /\ appState = "REVIEW"
    /\ recordingData' = NoRecording
    /\ appState' = "IDLE"
    /\ errorMessage' = Null
    /\ meta' = NoMeta
    /\ isLoadingAi' = FALSE
    /\ lastOp' = "reset"
    /\ UNCHANGED <<stateVars, refVars, pc, session, screenSrc, cameraSrc,
                   recorderState, recorderMime, stopQueued, encBuffered,
                   streamTracks, audioContextState, rafPending, canvasFrame,
                   phase, emitted, timeVars, failed, onStopCount, stopCause,
                   stopCalls, envVars,
                   mixerInputs, fitOutput,
                   canvasVars, stopLog, overlayVars, configVars>>

\* the mount effect of ReviewView calls generateMagic, which returns at once
\* without a thumbnail and else awaits generateVideoMetadata
GenerateMagic ==
    /\ appState = "REVIEW"
    /\ ~meta.set /\ ~isLoadingAi
    /\ recordingData.thumbnail \notin {Null, ""}
    /\ isLoadingAi' = TRUE
    /\ lastOp' = "generateMagic"
    /\ UNCHANGED <<sessionVarsButReview, meta, overlayVars, configVars>>

\* generateVideoMetadata resolves in the mounted ReviewView: setMeta(result),
\* setIsLoadingAi(false)
MetadataResolved ==
    /\ isLoadingAi
    /\ meta' = [set |-> TRUE,
                title |-> generateVideoMetadata(remote, language).title,
                description |->
                    generateVideoMetadata(remote, language).description]
    /\ isLoadingAi' = FALSE
    /\ lastOp' = "metadata"
    /\ UNCHANGED <<sessionVarsButReview, overlayVars, configVars>>

\* startRecording invoked again while a session is Recording, Paused or
\* Stopping.  startRecording tests nothing before its prologue: the state is
\* reset and the hidden video elements are replaced as for a first start.
\* RecordingOverlay stays mounted, so the canvas is not replaced.
StartWhileActive ==
    /\ recorderState # "inactive" \/ stopQueued
    /\ pc = "idle"
    /\ session < MaxSessions
    /\ errorMessage' = Null
    /\ appState' = "RECORDING"
    /\ error' = Null
    /\ elapsedTime' = 0
    /\ chunksRef' = <<>>
    /\ isPaused' = FALSE
    /\ phase' = timerEffect(isRecording, FALSE)
    /\ screenVideoRef' = TRUE
    /\ cameraVideoRef' = TRUE
    /\ session' = session + 1
    /\ screenSrc' = [screenSrc EXCEPT ![session + 1] = "Opening"]
    /\ pc' = "awaitScreen"
    /\ lastOp' = "start"
    /\ UNCHANGED <<recordingData, isRecording, mediaRecorderRef,
                   animationFrameRef, streamRef, audioContextRef, cameraSrc,
                   recorderState, recorderMime, stopQueued, encBuffered,
                   streamTracks, audioContextState, rafPending, canvasFrame,
                   emitted, recTicks, pausedTicks, resumed, failed,
                   onStopCount, stopCause, stopCalls, sideVars, stopLog,
                   overlayVars, configVars>>

\* EncoderOpened once the recorder of the session before is inactive and its
\* stop task has run
EncoderOpenedAlone ==
    /\ recorderState = "inactive"
    /\ ~stopQueued
    /\ EncoderOpened

\* the encoder fails while the recorder is recording or paused.  The
\* recorder becomes inactive and fires error, then dataavailable with the
\* data gathered so far, then stop.  No onerror handler is attached to the
\* recorder, so the error event runs no code of the hook; the other two
\* events are the stop task.
EncoderError ==
    /\ recorderState # "inactive"
    /\ recorderState' = "inactive"
    /\ stopQueued' = TRUE
    /\ stopCause' = "encoderError"
    /\ lastOp' = "encoderError"
    /\ UNCHANGED <<appVars, stateVars, refVars, pc, session, screenSrc,
                   cameraSrc, recorderMime, encBuffered, streamTracks,
                   audioContextState, rafPending, canvasFrame, phase,
                   emitted, timeVars, failed, onStopCount, stopCalls,
                   sideVars, stopLog, overlayVars, configVars>>

\* RecordingOverlay shows the draggable box and its controls
Interactive ==
    /\ appState = "RECORDING"
    /\ isRecording
    /\ containerBounds.width > 0

\* the ResizeObserver of RecordingOverlay reports the size at which the
\* canvas is laid out; the layout is taken to stay as first measured
ContainerMeasured(bounds) ==
    /\ appState = "RECORDING"
    /\ containerBounds = Unmeasured
    /\ containerBounds' = bounds
    /\ lastOp' = "measured"
    /\ UNCHANGED <<sessionVars, configVars, isSettingsOpen, draggingRef,
                   resizingRef>>

\* a control of LandingView calls updateConfig(key, value)
LandingUpdate(key, value) ==
    /\ appState = "IDLE"
    /\ cameraConfig' = updateConfig(cameraConfig, key, value)
    /\ lastOp' = "landingUpdate"
    /\ UNCHANGED <<sessionVars, overlayVars, configRef, drawnConfig,
                   gestures>>

\* the cog button of the overlay box opens and closes the settings popover
ToggleSettings ==
    /\ Interactive
    /\ isSettingsOpen' = ~isSettingsOpen
    /\ lastOp' = "toggleSettings"
    /\ UNCHANGED <<sessionVars, configVars, containerBounds, draggingRef,
                   resizingRef>>

\* a control of the settings popover calls updateConfig(key, value)
OverlayUpdate(key, value) ==
    /\ Interactive
    /\ isSettingsOpen
    /\ cameraConfig' = updateConfig(cameraConfig, key, value)
    /\ lastOp' = "overlayUpdate"
    /\ UNCHANGED <<sessionVars, overlayVars, configRef, drawnConfig,
                   gestures>>

\* handlePointerDown on the overlay box, with one pointer
HandlePointerDown ==
    /\ Interactive
    /\ ~isSettingsOpen
    /\ ~draggingRef.set /\ ~resizingRef.set
    /\ gestures < MaxGestures
    /\ draggingRef' = [set |-> TRUE, initialX |-> cameraConfig.position.x,
                       initialY |-> cameraConfig.position.y]
    /\ gestures' = gestures + 1
    /\ lastOp' = "pointerDown"
    /\ UNCHANGED <<sessionVars, cameraConfig, configRef, drawnConfig,
                   containerBounds, isSettingsOpen, resizingRef>>

\* handleResizePointerDown on the resize handle, which takes no pointer
\* events while the settings are open
HandleResizePointerDown ==
    /\ Interactive
    /\ ~isSettingsOpen
    /\ ~draggingRef.set /\ ~resizingRef.set
    /\ gestures < MaxGestures
    /\ resizingRef' = [set |-> TRUE, initialSize |-> cameraConfig.size]
    /\ gestures' = gestures + 1
    /\ lastOp' = "pointerDown"
    /\ UNCHANGED <<sessionVars, cameraConfig, configRef, drawnConfig,
                   containerBounds, isSettingsOpen, draggingRef>>

\* handlePointerMove, the window listener of the mounted RecordingOverlay,
\* for a pointer that moved by (dx, dy) since pointer-down
HandlePointerMove(dx, dy) ==
    /\ appState = "RECORDING"
    /\ draggingRef.set \/ resizingRef.set
    /\ cameraConfig' = pointerMoveConfig(dx, dy)
    /\ lastOp' = IF resizingRef.set /\ containerBounds.height > 0
                 THEN "resize" ELSE "drag"
    /\ UNCHANGED <<sessionVars, overlayVars, configRef, drawnConfig,
                   gestures>>

\* handlePointerUp
HandlePointerUp ==
    /\ appState = "RECORDING"
    /\ draggingRef.set \/ resizingRef.set
    /\ draggingRef' = NoDrag
    /\ resizingRef' = NoResize
    /\ lastOp' = "pointerUp"
    /\ UNCHANGED <<sessionVars, configVars, containerBounds,
                   isSettingsOpen>>

\* the effect of useRecorder on [cameraConfig] runs, some time after the
\* render that followed setCameraConfig
ConfigEffect ==
    /\ configRef # cameraConfig
    /\ configRef' = configEffect
    /\ lastOp' = "configEffect"
    /\ UNCHANGED <<sessionVars, overlayVars, cameraConfig, drawnConfig,
                   gestures>>

\* the operations of the App and of the hook, and the events of the capture
\* sources and of the recorder they react to
Lifecycle ==
    \/ HandleStart
    \/ ScreenGranted
    \/ ScreenDenied
    \/ CameraGranted
    \/ CameraDenied
    \/ PlayResolved
    \/ PlayRejected
    \/ EncoderOpened
    \/ NoSupportedFormat
    \/ TogglePause
    \/ StopRecording
    \/ ScreenEnded
    \/ RecorderStopTask
    \/ HandleReset

\* The session with its encoder and its compositor.  The clock is left out:
\* Tick reads and writes elapsedTime, phase and the tick counters only, and
\* no other action reads them.
Next ==
    \/ Lifecycle
    \/ Encode
    \/ TimesliceFlush
    \/ DrawTick

Spec == Init /\ [][Next]_vars

\* the browser runs every queued task: the stop task of a stopped recorder
\* is eventually dispatched
FairSpec == Spec /\ WF_vars(RecorderStopTask)

\* The session with the clock.  The encoder's data and the compositor's
\* ticks are left out: they read and write encBuffered, chunksRef, emitted
\* and canvasFrame only, which the timer never reads.
TimerNext ==
    \/ Lifecycle
    \/ Tick

TimerSpec == Init /\ [][TimerNext]_vars

\* The session in a browser supporting any part of the format list.  The
\* encoder's data, the compositor's ticks and the clock are left out: the
\* format is chosen once, when the MediaRecorder is created.
FormatSpec == FormatInit /\ [][Lifecycle]_vars

\* The session when its caller does not keep to the App's views and invokes
\* startRecording while a session is active.  The model has one recorder:
\* the second call is followed up to the creation of its MediaRecorder, which
\* is taken only once the first recorder is inactive and delivered.
ReentrantNext ==
    \/ StartWhileActive
    \/ HandleStart
    \/ ScreenGranted
    \/ ScreenDenied
    \/ CameraGranted
    \/ CameraDenied
    \/ PlayResolved
    \/ PlayRejected
    \/ EncoderOpenedAlone
    \/ NoSupportedFormat
    \/ TogglePause
    \/ StopRecording
    \/ ScreenEnded
    \/ RecorderStopTask
    \/ HandleReset
    \/ Encode
    \/ TimesliceFlush
    \/ DrawTick

ReentrantSpec == Init /\ [][ReentrantNext]_vars

\* The session with an encoder that may fail while it runs
FailureNext ==
    \/ Next
    \/ EncoderError

FailureSpec == Init /\ [][FailureNext]_vars

\* A start in which every request is granted
StartPath ==
    \/ HandleStart
    \/ ScreenGranted
    \/ CameraGranted
    \/ PlayResolved
    \/ EncoderOpened

\* The compositor and the overlay configuration during one session: the
\* settings popover and the resize handle change the configuration, the
\* config effect commits it, the tick loop draws.  The canvas is laid out
\* landscape, the handle is pulled down by 60 pixels.
OverlayNext ==
    \/ StartPath
    \/ ContainerMeasured([width |-> 200, height |-> 100])
    \/ ToggleSettings
    \/ \E shape \in Shapes : OverlayUpdate("shape", shape)
    \/ HandleResizePointerDown
    \/ HandlePointerMove(0, 60)
    \/ HandlePointerUp
    \/ ConfigEffect
    \/ DrawTick

OverlaySpec == Init /\ [][OverlayNext]_vars

\* The position and the size of the overlay under the controls that change
\* them: the size slider of LandingView before the start, dragging the box and
\* pulling the resize handle during the session.  The other controls replace
\* shape, border width or border colour and leave position and size as they
\* are; they, the compositor's ticks and the config effect are left out.
GeometryNext ==
    \/ StartPath
    \/ \E size \in SliderSizes : LandingUpdate("size", size)
    \/ \E bounds \in Frames : ContainerMeasured(bounds)
    \/ HandlePointerDown
    \/ HandleResizePointerDown
    \/ \E dx \in Deltas, dy \in Deltas : HandlePointerMove(dx, dy)
    \/ HandlePointerUp

GeometrySpec == Init /\ [][GeometryNext]_vars

\* The preview box and the compositor during one session, on canvases laid
\* out at each of the frames, in browsers with and without roundRect: the
\* settings popover changes the shape, the resize handle the size, the
\* config effect commits the configuration, the tick loop draws it.
PreviewNext ==
    \/ StartPath
    \/ \E bounds \in Frames : ContainerMeasured(bounds)
    \/ ToggleSettings
    \/ \E shape \in Shapes : OverlayUpdate("shape", shape)
    \/ HandleResizePointerDown
    \/ HandlePointerMove(0, 60)
    \/ HandlePointerUp
    \/ ConfigEffect
    \/ DrawTick

PreviewSpec == PreviewInit /\ [][PreviewNext]_vars

\* One recording from start to review, then the review's request for a title
\* and a description, answered in any of the ways
MetadataNext ==
    \/ StartPath
    \/ StopRecording
    \/ RecorderStopTask
    \/ GenerateMagic
    \/ MetadataResolved
    \/ HandleReset

MetadataSpec == MetadataInit /\ [][MetadataNext]_vars

\* The compositor drawing camera frames of every size into boxes of every
\* side, during one session
CoverNext ==
    \/ StartPath
    \/ DrawTick

CoverSpec == CoverInit /\ [][CoverNext]_vars

\* The compositor drawing overlays of every shape, with and without a
\* border, in browsers with and without roundRect: the shape and the border
\* width are chosen in LandingView before the start
BorderWidths == {0, 8, 20}

CompositorNext ==
    \/ \E shape \in Shapes : LandingUpdate("shape", shape)
    \/ \E width \in BorderWidths : LandingUpdate("borderWidth", width)
    \/ ConfigEffect
    \/ StartPath
    \/ DrawTick

CompositorSpec == PreviewInit /\ [][CompositorNext]_vars

\* The controls that change the overlay's size and border width, over
\* sessions run one after another: the two sliders of LandingView before a
\* start, the resize handle and the border slider of the settings popover
\* during the session, laid out landscape.  The config effect and the ticks,
\* which copy the configuration and change none of its fields, are left out.
ControlsNext ==
    \/ \E stop \in SizeStops : LandingUpdate("size", sizeSlider(stop))
    \/ \E stop \in BorderStops :
           LandingUpdate("borderWidth", borderSlider(stop))
    \/ StartPath
    \/ ContainerMeasured([width |-> 200, height |-> 100])
    \/ ToggleSettings
    \/ \E stop \in BorderStops :
           OverlayUpdate("borderWidth", borderSlider(stop))
    \/ HandleResizePointerDown
    \/ \E dy \in Deltas : HandlePointerMove(0, dy)
    \/ HandlePointerUp
    \/ StopRecording
    \/ RecorderStopTask
    \/ HandleReset

ControlsSpec == Init /\ [][ControlsNext]_vars

\* Sessions run one after another, with the encoder and the clock: each is
\* started with every request granted, records, may be paused and resumed,
\* is stopped by stop() or by the end of a screen share, delivers its
\* artifact and is discarded from the review before the next start
SequenceNext ==
    \/ StartPath
    \/ Encode
    \/ TimesliceFlush
    \/ Tick
    \/ TogglePause
    \/ ScreenEnded
    \/ StopRecording
    \/ RecorderStopTask
    \/ HandleReset

SequenceSpec == Init /\ [][SequenceNext]_vars

\* The session on machines with and without a microphone, with and without
\* shared system audio
AudioSpec == AudioInit /\ [][Lifecycle]_vars

\* ------------------------------------------------------------------ claims

\* the session is Recording or Paused: its encoder is
Active == recorderState \in {"recording", "paused"}

\* no start in flight, no encoder running, no stop being processed: before
\* any start, after a failed start, after a completed stop
Idle == pc = "idle" /\ recorderState = "inactive" /\ ~stopQueued

\* the artifact of session s has been handed to onStop
Stopped(s) == onStopCount[s] > 0

\* the step hands an artifact to onStop
Delivers == onStopCount' # onStopCount

\* C1: stop() invoked while the session is Recording or Paused always leads
\* to Stopped: the recorder's stop task runs, the artifact handed to onStop
\* holds exactly the non-empty segments the encoder emitted and a snapshot of
\* the canvas, the app shows it for review, and isRecording and isPaused are
\* both false.
C1_StopDeliversArtifact ==
    /\ \A s \in Sessions :
          (mediaRecorderRef = s /\ stopQueued) ~> Stopped(s)
    /\ [][Delivers =>
            /\ stopQueued /\ ~stopQueued'
            /\ onStopCount' =
                  [onStopCount EXCEPT ![mediaRecorderRef] = @ + 1]
            /\ recorderState' = "inactive"
            /\ recordingData'.blob.parts = emitted'
            /\ recordingData'.thumbnail = canvasFrame'
            /\ recordingData'.thumbnail # Null
            /\ appState' = "REVIEW"
            /\ ~isRecording' /\ ~isPaused']_vars

\* a stop issued while Paused, after two segments were flushed, delivered
C1_Witness ==
    /\ lastOp = "onstop"
    /\ stopCause = "user"
    /\ resumed
    /\ Stopped(session)
    /\ Len(recordingData.blob.parts) = 2
    /\ recordingData.thumbnail = "screen+cam"

C3_FailedStartReleasesAll ==
    lastOp = "startFailed" =>
        /\ screenSrc[session] # "Live"
        /\ cameraSrc[session] # "Live"
        /\ ~screenVideoRef /\ ~cameraVideoRef
        /\ audioContextState # "running"
        /\ ~rafPending

\* C4: whenever a session has reached Stopped, its resources are released:
\* neither capture source is Live, and when the artifact is delivered the
\* audio graph is closed and the tick loop is cancelled.
C4_StoppedReleasesAll ==
    /\ \A s \in Sessions :
          Stopped(s) => screenSrc[s] # "Live" /\ cameraSrc[s] # "Live"
    /\ lastOp = "onstop" => audioContextState # "running" /\ ~rafPending

\* C5: the screen source ending stops the session from whatever state it is
\* in: the session is never Recording or Paused while its own screen source
\* has ended.
C5_NeverActiveWithEndedScreen ==
    Active => screenSrc[mediaRecorderRef] # "Ended"

\* C6 as stated: the screen source ending while Recording yields a
\* delivered, non-empty artifact and no error.
C6_EndedYieldsNonEmptyArtifact ==
    (lastOp = "onstop" /\ stopCause = "screenEnded") =>
        /\ Stopped(mediaRecorderRef)
        /\ Len(recordingData.blob.parts) > 0
        /\ error = Null

\* C6 as amended: the screen source ending while Recording leads to Stopped
\* with no error, and the delivered artifact is non-empty exactly when the
\* encoder emitted a non-empty segment.  (The formula covers an end while
\* Paused as well.)
C6_EndedDeliversWhatWasEncoded ==
    /\ (stopQueued /\ stopCause = "screenEnded")
          ~> (lastOp = "onstop" /\ stopCause = "screenEnded")
    /\ [](lastOp = "onstop" /\ stopCause = "screenEnded" =>
            /\ Stopped(mediaRecorderRef)
            /\ error = Null
            /\ appState = "REVIEW"
            /\ Len(recordingData.blob.parts) > 0 <=> Len(emitted) > 0)

\* the screen ended mid-recording and the artifact holds a segment
C6_Witness ==
    /\ lastOp = "onstop"
    /\ stopCause = "screenEnded"
    /\ Len(recordingData.blob.parts) > 0
    /\ error = Null

\* C7: pause(), resume() and stop() invoked while the session is Idle change
\* nothing and deliver nothing.
C7_IdleCallsChangeNothing ==
    [][(Idle /\ lastOp' \in {"togglePause", "stopRecording"}) =>
          UNCHANGED <<isRecording, isPaused, elapsedTime, chunksRef, error,
                      recorderState, stopQueued, recordingData, onStopCount,
                      appState, pc>>]_vars

\* stop() called after a failed start that followed a completed session
C7_Witness ==
    /\ lastOp = "stopRecording"
    /\ Idle
    /\ session \in failed
    /\ mediaRecorderRef # 0

\* C8: togglePause pauses only a Recording session and resumes only a Paused
\* one; in every other state (Starting, Stopping, Stopped, Idle) it leaves
\* the session and the encoder as they are.
C8_PauseResumeOnlyWhenValid ==
    [][lastOp' = "togglePause" =>
          /\ UNCHANGED <<isRecording, stopQueued, pc, appState, chunksRef,
                         elapsedTime, error, onStopCount>>
          /\ IF recorderState = "recording"
             THEN recorderState' = "paused" /\ isPaused'
             ELSE IF recorderState = "paused"
             THEN recorderState' = "recording" /\ ~isPaused'
             ELSE UNCHANGED <<recorderState, isPaused>>]_vars

\* a resume that took a Paused session back to Recording
C8_Witness ==
    /\ lastOp = "togglePause"
    /\ resumed
    /\ recorderState = "recording"
    /\ ~isPaused /\ isRecording

C10_TimerErrorBounded ==
    Active => recTicks - elapsedTime * SubTicks <= SubTicks

\* C11: at most one session is active at a time: a start() issued while a
\* session is Recording, Paused or Stopping is rejected, it opens no second
\* session and leaves the active session's encoder, chunks, tick loop, pause
\* state and elapsedTime as they are.
C11_ActiveStartRejected ==
    [][((recorderState # "inactive" \/ stopQueued) /\ lastOp' = "start") =>
          UNCHANGED <<pc, session, chunksRef, elapsedTime, isPaused,
                      recorderState, encBuffered, rafPending, screenSrc,
                      cameraSrc>>]_vars

C13_ReleasedAtMostOnce ==
    \A s \in Sessions : stopCalls[s] <= 1

\* C14: whatever part of the format list the browser supports, start()
\* creates the recorder with the first supported entry of the list; when no
\* entry is supported the start fails at the format selection with the
\* no-supported-format error, no recorder is ever created and the session is
\* Idle again.  That error is given for no other reason.
C14_FirstSupportedFormatIsSelected ==
    /\ mediaRecorderRef # 0 =>
          \E i \in 1..Len(MimeTypes) :
             /\ recorderMime = MimeTypes[i]
             /\ MimeTypes[i] \in supported
             /\ \A j \in 1..(i - 1) : MimeTypes[j] \notin supported
    /\ (\A i \in 1..Len(MimeTypes) : MimeTypes[i] \notin supported) =>
          /\ mediaRecorderRef = 0
          /\ recorderState = "inactive" /\ ~isRecording
          /\ (lastOp = "startFailed" /\ streamRef = session) =>
                /\ error = "No supported video MIME type found"
                /\ Idle
                /\ appState = "IDLE"
    /\ error = "No supported video MIME type found" =>
          \A i \in 1..Len(MimeTypes) : MimeTypes[i] \notin supported

\* vp9 and vp8 are not supported, plain webm and mp4 are: webm is recorded
C14_Witness ==
    /\ supported = {"video/webm", "video/mp4"}
    /\ recorderState = "recording"
    /\ recorderMime = "video/webm"

\* nothing is supported: the start has failed at the format selection
C14_WitnessNone ==
    /\ supported = {}
    /\ lastOp = "startFailed"
    /\ error = "No supported video MIME type found"

\* C15: when the encoder fails after the session has entered Recording or
\* Paused, the session ends as Failed: once the recorder's events have been
\* handled the session is no longer reported as recording, teardown has been
\* performed and the error is surfaced to the caller.
C15_EncoderFailureIsSurfaced ==
    (stopCause = "encoderError" /\ lastOp = "onstop") =>
        /\ ~isRecording
        /\ error # Null
        /\ ~screenVideoRef /\ ~cameraVideoRef
        /\ audioContextState # "running"
        /\ ~rafPending

\* step a comes before step b in the log, when both are in it
Before(log, a, b) ==
    \A i, j \in 1..Len(log) : (log[i] = a /\ log[j] = b) => i < j

\* step a is in the log
Logged(log, a) == \E i \in 1..Len(log) : log[i] = a

\* C16: on stop the encoder is finalized first (last segment flushed,
\* artifact assembled, thumbnail taken), only then are the resources released
\* (the sources, then the audio mixer, then the tick loop), and only then is
\* the session reported Stopped, with the capture sources no longer live.
C16_FinalizeThenReleaseInOrder ==
    lastOp = "onstop" =>
        /\ Before(stopLog, "dataavailable", "blob")
        /\ Before(stopLog, "blob", "thumbnail")
        /\ \A r \in {"screenVideo", "cameraVideo", "streamTracks",
                     "audioContext", "animationFrame"} :
              /\ Before(stopLog, "thumbnail", r)
              /\ Before(stopLog, r, "onStop")
        /\ \A r \in {"screenVideo", "cameraVideo", "streamTracks"} :
              Before(stopLog, r, "audioContext")
        /\ Before(stopLog, "audioContext", "animationFrame")
        /\ Logged(stopLog, "onStop")
        /\ screenSrc[mediaRecorderRef] # "Live"
        /\ cameraSrc[mediaRecorderRef] # "Live"

\* C17: after an update of the overlay configuration is issued, the very
\* next compositor tick draws with it: no tick that runs after the update
\* draws with the configuration before it.
C17_NextTickUsesUpdate ==
    lastOp = "draw" => drawnConfig = cameraConfig

\* C18: every compositor tick uses one snapshot of the configuration: size,
\* shape, border colour, border width and position are those of the one
\* value configRef holds when the tick runs, however updates and ticks
\* interleave, and a scheduled tick can always run, a pending update or not.
C18_TickUsesOneSnapshot ==
    /\ [][lastOp' = "draw" =>
            /\ drawnConfig'.size = configRef.size
            /\ drawnConfig'.shape = configRef.shape
            /\ drawnConfig'.borderColor = configRef.borderColor
            /\ drawnConfig'.borderWidth = configRef.borderWidth
            /\ drawnConfig'.position = configRef.position
            /\ configRef' = configRef]_vars
    /\ [](rafPending => ENABLED DrawTick)

\* a tick ran between two updates: the new shape was committed, the new size
\* was not yet
C18_Witness ==
    /\ lastOp = "draw"
    /\ drawnConfig.shape = "square"
    /\ drawnConfig.size = 20
    /\ cameraConfig.size = 50
    /\ configRef # cameraConfig

\* C19: after any sequence of configuration changes from the default
\* configuration the square the camera is drawn into lies inside the frame:
\* 0 <= x, 0 <= y, x + size <= frameWidth, y + size <= frameHeight.  The
\* frame is taken at the size at which the canvas is laid out.
C19_BoxStaysInsideFrame ==
    containerBounds.width > 0 =>
        BoxInside(cameraConfig, containerBounds.width,
                  containerBounds.height)

\* C20: for every size, frame and requested position, the position the drag
\* clamp produces has x in [0, 1 - overlayPixelSize/frameWidth] and y in
\* [0, 1 - overlayPixelSize/frameHeight], so that the overlay box at that
\* position lies within the frame.
C20_DragClampKeepsBoxInside ==
    lastOp = "drag" =>
        LET w == containerBounds.width
            h == containerBounds.height
            overlayPixelSize == MathMin(w, h) * cameraConfig.size
        IN  /\ cameraConfig.size \in 10..50
            /\ cameraConfig.position.x >= 0
            /\ cameraConfig.position.y >= 0
            /\ cameraConfig.position.x * w * SizeUnit
                  <= PosUnit * (w * SizeUnit - overlayPixelSize)
            /\ cameraConfig.position.y * h * SizeUnit
                  <= PosUnit * (h * SizeUnit - overlayPixelSize)
            /\ BoxInside(cameraConfig, w, h)

\* a box of size 0.5 dragged into the bottom right corner of a landscape
\* frame: the clamp holds it at x = 0.75, y = 0.5
C20_Witness ==
    /\ lastOp = "drag"
    /\ containerBounds = [width |-> 200, height |-> 100]
    /\ cameraConfig.size = 50
    /\ cameraConfig.position = [x |-> 750, y |-> 500]

\* C21 as stated: during start() the two requests are outstanding at the same
\* time (while the screen request is outstanding the camera request is
\* too), and a session has an encoder only after both resolved.
C21_RequestsOutstandingTogether ==
    \A s \in Sessions :
        /\ screenSrc[s] = "Opening" => cameraSrc[s] = "Opening"
        /\ mediaRecorderRef = s =>
               screenSrc[s] \in {"Live", "Ended"} /\ cameraSrc[s] = "Live"

\* C21: start() issues the camera request only after the screen request has
\* resolved, so the two are never outstanding together; awaiting play,
\* building the mixer and opening the encoder happen only after both
\* resolved.
C21_CameraRequestedAfterScreen ==
    \A s \in Sessions :
        /\ cameraSrc[s] # "None" => screenSrc[s] \in {"Live", "Ended"}
        /\ ~(screenSrc[s] = "Opening" /\ cameraSrc[s] = "Opening")
        /\ (session = s /\ pc \in {"awaitPlay", "awaitAudio"}) =>
               screenSrc[s] \in {"Live", "Ended"} /\ cameraSrc[s] = "Live"
        /\ mediaRecorderRef = s =>
               screenSrc[s] \in {"Live", "Ended"} /\ cameraSrc[s] = "Live"

\* the camera request is outstanding, the screen request has resolved
C21_Witness ==
    /\ pc = "awaitCamera"
    /\ screenSrc[session] = "Live"
    /\ cameraSrc[session] = "Opening"

\* C22: the mixer connects one input per capture source that carries audio
\* into the one destination node, and start() can go on to Recording in each
\* of the four combinations of audio availability: whatever audio the machine
\* has, the camera request of a start can be granted.
C22_StartSucceedsWithAnyAudio ==
    /\ Active =>
           mixerInputs =
               {i \in {"micSource", "sysSource"} :
                   \/ i = "micSource" /\ "microphone" \in audioSources
                   \/ i = "sysSource" /\ "system" \in audioSources}
    /\ pc = "awaitCamera" => ENABLED CameraGranted

\* C23: for every source size and box side, the fit a tick computes has
\* drawW >= box and drawH >= box with drawW : drawH equal to the source's
\* aspect ratio; for a landscape source drawW = box * aspect,
\* offX = -(drawW - box) / 2 and offY = 0, otherwise drawH = box / aspect,
\* offY = -(drawH - box) / 2 and offX = 0; the image overhangs the box by the
\* same amount on opposite sides, so it is centred and covers the whole box.
C23_CoverFitCoversBox ==
    LET vw == fitInput.vw
        vh == fitInput.vh
        box == fitInput.camDrawSize * fitUnit(vw, vh)
        f == fitOutput
    IN  f # NoFit =>
            /\ f.drawW >= box /\ f.drawH >= box
            /\ f.drawW * vh = f.drawH * vw
            /\ IF vw > vh
               THEN /\ f.drawW * vh = box * vw
                    /\ 2 * f.offX = -(f.drawW - box)
                    /\ f.offY = 0
               ELSE /\ f.drawH * vw = box * vh
                    /\ 2 * f.offY = -(f.drawH - box)
                    /\ f.offX = 0
            /\ f.offX <= 0 /\ f.offX + f.drawW >= box
            /\ f.offY <= 0 /\ f.offY + f.drawH >= box
            /\ -f.offX = f.offX + f.drawW - box
            /\ -f.offY = f.offY + f.drawH - box

\* a tick has fitted a landscape camera frame, wider than the box
C23_Witness ==
    /\ lastOp = "draw"
    /\ fitInput.vw > fitInput.vh
    /\ fitOutput # NoFit
    /\ fitOutput.drawW >
           fitInput.camDrawSize * fitUnit(fitInput.vw, fitInput.vh)
    /\ fitOutput.offX < 0

\* the preview box p laid out in bounds and the compositor's box c on canvas
\* are the same box: the same side as a fraction of the smaller dimension and
\* of the width, the same origin as a fraction of width and height, the same
\* corner radius as a fraction of the side
SameGeometry(p, bounds, c, canvas) ==
    /\ p.side * MathMin(canvas.width, canvas.height)
           = c.camDrawSize * MathMin(bounds.width, bounds.height)
    /\ p.side * canvas.width = c.camDrawSize * bounds.width
    /\ p.left * canvas.width = c.x
    /\ p.top * canvas.height = c.y
    /\ p.radius * c.camDrawSize = c.radius

\* the compositor has drawn the configuration the laid-out preview shows
PreviewDrawn ==
    /\ containerBounds.width > 0
    /\ lastOp = "draw"
    /\ drawnConfig = cameraConfig

C25_MetadataFailsSoft ==
    /\ isLoadingAi => ENABLED MetadataResolved
    /\ meta.set => Len(meta.title) > 0 /\ Len(meta.description) > 0
    /\ (isLoadingAi \/ meta.set) =>
           /\ appState = "REVIEW"
           /\ recordingData # NoRecording
           /\ \E s \in Sessions : Stopped(s)

\* C26: a screen-ended notification from the screen source of an earlier
\* session (stopped, or abandoned by a failed start) never stops or otherwise
\* alters a later session: the step in which such a source ends leaves the
\* encoder and the flags as they are.
C26_StaleScreenEndChangesNothing ==
    [][(\E s \in Sessions :
            /\ s < session
            /\ screenSrc[s] = "Live"
            /\ screenSrc'[s] = "Ended")
        => UNCHANGED <<recorderState, stopQueued, isRecording, isPaused,
                       stopCause>>]_vars

\* C27: for each session that reached Recording the artifact callback is
\* invoked exactly once, however often stop() is called and whichever of a
\* screen-ended event and a user-issued stop() comes first: once the
\* session's recorder is stopped the artifact is delivered, no session's
\* artifact is ever delivered twice, none is delivered for a session that
\* has not recorded, and a stop() or a screen-ended event that finds the
\* recorder inactive queues nothing.
C27_ArtifactDeliveredExactlyOnce ==
    /\ \A s \in Sessions :
          (mediaRecorderRef = s /\ recorderState = "inactive")
              ~> (onStopCount[s] = 1)
    /\ [](\A s \in Sessions :
             /\ onStopCount[s] <= 1
             /\ onStopCount[s] = 1 => s \notin failed /\ s <= mediaRecorderRef
             /\ (mediaRecorderRef = s /\ (Active \/ stopQueued)) =>
                    onStopCount[s] = 0)
    /\ [][(lastOp' \in {"stopRecording", "screenEnded"}
              /\ recorderState = "inactive")
           => UNCHANGED <<stopQueued, onStopCount, recordingData>>]_vars

\* the screen source of the session ended, its artifact was delivered, and
\* stop() is called on top
C27_Witness ==
    /\ lastOp = "stopRecording"
    /\ stopCause = "screenEnded"
    /\ mediaRecorderRef = session
    /\ screenSrc[session] = "Ended"
    /\ onStopCount[session] = 1

\* C28: in every state where the session is Recording or Paused a compositor
\* tick is pending on the two video elements, and pause() neither cancels
\* nor suspends the loop: togglePause leaves the pending tick as it is, a
\* tick that runs while Paused draws and schedules the next one, and only
\* the encoder is paused (it takes in no data while Paused).
C28_TickLoopRunsWhileActive ==
    /\ [](Active =>
             /\ rafPending /\ animationFrameRef
             /\ screenVideoRef /\ cameraVideoRef
             /\ ENABLED DrawTick)
    /\ [](recorderState = "paused" => ~ENABLED Encode)
    /\ [][lastOp' = "togglePause" =>
             UNCHANGED <<rafPending, animationFrameRef, screenVideoRef,
                         cameraVideoRef, canvasFrame>>]_vars
    /\ [][(lastOp' = "draw" /\ recorderState = "paused") =>
             /\ rafPending'
             /\ canvasFrame' \in {"screen+cam", "screen", "black+cam",
                                   "black"}
             /\ drawnConfig' = configRef]_vars

\* a tick has drawn the screen and the camera while the session is Paused
C28_Witness ==
    /\ recorderState = "paused"
    /\ isPaused
    /\ lastOp = "draw"
    /\ canvasFrame = "screen+cam"
    /\ rafPending

\* C29: however teardown (from the stop task or from a failed start) is
\* interleaved with compositor ticks, no tick runs after it: teardown leaves
\* no tick pending and the video elements released, a pending tick always
\* has both video elements, every tick that runs draws from both and finds
\* them in place, and a stopped loop stays stopped until the first draw of
\* a later start.
C29_NoTickAfterTeardown ==
    /\ [](rafPending => screenVideoRef /\ cameraVideoRef)
    /\ [][lastOp' \in {"onstop", "startFailed"} =>
             /\ ~rafPending' /\ ~animationFrameRef'
             /\ ~screenVideoRef' /\ ~cameraVideoRef']_vars
    /\ [][lastOp' = "draw" =>
             /\ screenVideoRef /\ cameraVideoRef
             /\ lastOp \notin {"onstop", "startFailed"}]_vars
    /\ [][(~rafPending /\ rafPending') =>
             lastOp' = "startStep" /\ pc = "awaitPlay"]_vars

\* the stop task has torn down a session whose ticks had drawn
C29_Witness ==
    /\ lastOp = "onstop"
    /\ recordingData.thumbnail \in {"screen+cam", "screen", "black+cam",
                                     "black"}
    /\ ~rafPending
    /\ ~screenVideoRef /\ ~cameraVideoRef

\* C30: in every state between operations the observable flags agree with
\* the encoder: isRecording is true exactly when the encoder is recording or
\* paused, isPaused exactly when it is paused, hence isPaused implies
\* isRecording.
C30_FlagsAgreeWithEncoder ==
    /\ isRecording <=> Active
    /\ isPaused <=> recorderState = "paused"
    /\ isPaused => isRecording

\* the last run of draw() that reached the canvas had a screen frame, a
\* camera frame
TickHadScreen == canvasFrame \in {"screen", "screen+cam"}

TickHadCamera == canvasFrame \in {"screen+cam", "black+cam"}

\* C31: in every compositor tick in which a camera frame is available, a drop
\* shadow is drawn along the overlay's shape boundary before the clip region
\* is applied: after such a tick the canvas shows the shadow around the box.
C31_ShadowDrawnBeforeClip ==
    TickHadCamera => "shadow" \in Layers(canvasPixels.outside)

\* C32: every compositor tick overwrites the whole frame buffer before any
\* overlay is drawn, with the screen frame if the screen source has one and
\* with opaque black otherwise: the tick's first call is that paint, it is
\* clipped by nothing a previous tick left in the context, and after the
\* tick no region of the canvas shows pixels of a previous tick.
C32_WholeFrameOverwritten ==
    canvasFrame # "blank" =>
        /\ canvasCalls # <<>>
        /\ Head(canvasCalls) =
               (IF TickHadScreen THEN "drawScreen" ELSE "fillBlack")
        /\ canvasPixels.outside =
               <<IF TickHadScreen THEN "screen" ELSE "black">>
        /\ Layers(canvasPixels.box) \cap {"stale", "blank"} = {}
        /\ Head(canvasPixels.box) \in
               {IF TickHadScreen THEN "screen" ELSE "black", "camera"}
        /\ ctx = DefaultDrawingState

\* a later tick finds no screen frame and paints black under a bordered
\* overlay, over what the ticks before it drew
C32_Witness ==
    /\ lastOp = "draw"
    /\ canvasFrame = "black+cam"
    /\ canvasPixels = [outside |-> <<"black">>,
                       box |-> <<"camera", "border">>]

\* a run of draw() that reached the canvas
TickRan ==
    \/ lastOp' = "draw" /\ screenVideoRef /\ cameraVideoRef
    \/ pc = "awaitPlay" /\ pc' = "awaitAudio"

\* C33: a compositor tick in which the camera source has no decodable frame
\* draws nothing of the overlay (no camera image, no border, no shadow, no
\* clip): its only call paints the screen frame or black, which is the frame
\* the canvas shows, and the next tick is scheduled.
C33_NoCameraNoOverlay ==
    [][(TickRan /\ canvasFrame' \in {"screen", "black"}) =>
          /\ canvasCalls' =
                 <<IF canvasFrame' = "screen" THEN "drawScreen"
                   ELSE "fillBlack">>
          /\ canvasPixels'.box = canvasPixels'.outside
          /\ canvasPixels'.outside \in {<<"screen">>, <<"black">>}
          /\ fitOutput' = NoFit
          /\ ctx' = DefaultDrawingState
          /\ rafPending' /\ animationFrameRef']_vars

\* a tick has drawn the screen alone, after a configuration with a border
\* was committed, and the next tick is pending
C33_Witness ==
    /\ lastOp = "draw"
    /\ canvasFrame = "screen"
    /\ canvasCalls = <<"drawScreen">>
    /\ drawnConfig.borderWidth = 20
    /\ rafPending

\* C34: after any sequence of resize-handle drags and slider changes the
\* overlay's relative size is within [0.1, 0.5] and its border width within
\* [0, 20] pixels.
C34_SizeAndBorderWithinLimits ==
    /\ cameraConfig.size \in 10..50
    /\ cameraConfig.borderWidth \in 0..20

\* the same of the configuration committed to the compositor and of the one
\* it last drew
C34_CommittedWithinLimits ==
    \A config \in {configRef, drawnConfig} :
        /\ config.size \in 10..50
        /\ config.borderWidth \in 0..20

\* the handle has been pulled down beyond the largest size in the second
\* session, after the border slider was pushed to its end
C34_Witness ==
    /\ lastOp = "resize"
    /\ session = 2
    /\ cameraConfig.size = 50
    /\ resizingRef.initialSize + 100 > 50
    /\ cameraConfig.borderWidth = 20

\* C35: for sessions run one after another nothing carries over from an
\* earlier session: chunksRef is empty from the start of a session until its
\* own encoder runs and holds segments of the current encoder only, the
\* artifact a session delivers is made of the segments its own encoder
\* emitted, numbered from 1, and elapsedTime is 0 from the start of a session
\* until it records and then counts the seconds this session has recorded.
C35_NothingCarriesOver ==
    /\ [](\A i \in 1..Len(chunksRef) :
             /\ chunksRef[i].session = mediaRecorderRef
             /\ chunksRef[i].seq = i)
    /\ [](pc # "idle" => chunksRef = <<>> /\ elapsedTime = 0)
    /\ [](Active =>
             /\ mediaRecorderRef = session
             /\ elapsedTime <= recTicks \div SubTicks
             /\ ~resumed => elapsedTime = recTicks \div SubTicks)
    /\ [][Delivers =>
            /\ Stopped(session)'
            /\ recordingData'.blob.parts = emitted'
            /\ \A i \in 1..Len(recordingData'.blob.parts) :
                   recordingData'.blob.parts[i] =
                       [session |-> session, seq |-> i, size |-> 1]]_vars
    /\ [][(~Active /\ Active') =>
            elapsedTime' = 0 /\ phase' = 0 /\ chunksRef' = <<>>]_vars

\* the second session has delivered two segments after one second, the first
\* session having delivered its own
C35_Witness ==
    /\ lastOp = "onstop"
    /\ session = 2
    /\ Stopped(1) /\ Stopped(2)
    /\ elapsedTime = 1
    /\ recordingData.blob.parts =
          <<[session |-> 2, seq |-> 1, size |-> 1],
            [session |-> 2, seq |-> 2, size |-> 1]>>

\* C36: the view state follows IDLE -> RECORDING -> (IDLE on a failed start |
\* REVIEW on artifact delivery) -> IDLE on reset and changes in no other
\* way; every failed start ends in IDLE and every delivery in REVIEW; the
\* app is in REVIEW only while it holds a delivered artifact; the start
\* control can be used in IDLE only.
C36_ViewStateMachine ==
    /\ [](appState \in {"IDLE", "RECORDING", "REVIEW"})
    /\ [](appState = "REVIEW" =>
             /\ recordingData # NoRecording
             /\ recordingData.thumbnail # Null
             /\ Stopped(session))
    /\ [](ENABLED HandleStart => appState = "IDLE")
    /\ [][appState' # appState =>
            \/ /\ appState = "IDLE" /\ appState' = "RECORDING"
               /\ lastOp' = "start"
            \/ /\ appState = "RECORDING" /\ appState' = "IDLE"
               /\ lastOp' = "startFailed"
            \/ /\ appState = "RECORDING" /\ appState' = "REVIEW"
               /\ Delivers
            \/ /\ appState = "REVIEW" /\ appState' = "IDLE"
               /\ lastOp' = "reset"]_vars
    /\ [][lastOp' = "startFailed" => appState' = "IDLE"]_vars
    /\ [][Delivers => appState' = "REVIEW"]_vars

\* a failed start, then a session recorded, reviewed and discarded
C36_Witness ==
    /\ lastOp = "reset"
    /\ appState = "IDLE"
    /\ session = 2
    /\ 1 \in failed
    /\ Stopped(2)
    /\ recordingData = NoRecording

TypeOK ==
    /\ appState \in {"IDLE", "RECORDING", "REVIEW"}
    /\ isRecording \in BOOLEAN /\ isPaused \in BOOLEAN
    /\ recorderState \in {"inactive", "recording", "paused"}
    /\ pc \in {"idle", "awaitScreen", "awaitCamera", "awaitPlay", "awaitAudio"}
    /\ session \in 0..MaxSessions
    /\ Len(chunksRef) <= MaxSegments + 1
    /\ audioSources \subseteq AudioKinds
    /\ roundRect \in BOOLEAN
    /\ mixerInputs \subseteq {"micSource", "sysSource"}
    /\ isLoadingAi \in BOOLEAN
    /\ meta.set \in BOOLEAN
    /\ Len(canvasCalls) <= 11
    /\ Layers(canvasPixels.outside) \cup Layers(canvasPixels.box)
          \subseteq {"blank", "stale", "screen", "black", "camera",
                     "shadow", "border"}
    /\ ctx.clip \in BOOLEAN /\ ctx.shadow \in BOOLEAN

====
